---------------------------- MODULE Spec2Model ----------------------------
(***************************************************************************)
(* A model of seedkit's core: the dependency graph with cycle breaking and *)
(* topological scheduling, the generation planner, the generation engine,  *)
(* the drift detector, the atomic lock/cache writer and the direct-insert  *)
(* coordinator.  Each subsystem has its own specification (SpecGraph,      *)
(* SpecEngine, ...) over its own variables; the variables of the other     *)
(* subsystems stay at their idle value.                                    *)
(***************************************************************************)
EXTENDS Integers, Sequences, FiniteSets, TLC

VARIABLES
    \* ---- dependency graph pipeline (graph/dag.rs, cycle.rs, topo.rs, plan.rs)
    schema,           \* the DatabaseSchema handed to the pipeline
    graph,            \* DependencyGraph.graph: the petgraph edge vector
    break_at,         \* the user's break-at list
    deferred,         \* Vec<DeferredEdge> collected by break_cycles
    cycles,           \* SCCs of the current round still to be processed
    insertion_order,  \* InsertionOrder.tables
    filtered_order,   \* result of filter_insertion_order
    include,          \* --include list
    exclude,          \* --exclude list
    table_plans,      \* plan.table_plans of the plan built last
    gpc,              \* position in the pipeline
    \* ---- two invocations of GenerationPlan::build on the same inputs
    build_schema,         \* schema argument
    classifications,      \* classifications argument
    plan_first,           \* table plans of the first invocation
    plan_second,          \* table plans of the second invocation
    bpc,                  \* which invocation is next
    \* ---- generation engine (generate/engine.rs)
    eng_schema,       \* schema argument of execute_plan
    plan,             \* plan argument of execute_plan
    run,              \* 1 or 2: execute_plan is called twice on the same plan
    epc,              \* position inside execute_plan
    err,              \* the SeedKitError returned, "" when none
    rng_stream,       \* outputs of StdRng::seed_from_u64(plan.seed) drawn so far
    rng_pos,          \* number of outputs the current run has consumed
    unique_tracker,   \* UniqueTracker.constraints
    fk_pool,          \* ForeignKeyPool.pools
    generated,        \* GeneratedData under construction
    table_rows,       \* rows of the table being generated
    ti,               \* index of the table plan being generated
    row_idx,          \* row_idx of execute_plan
    ci,               \* index of the column plan being generated
    row,              \* the candidate row (IndexMap, in insertion order)
    attempts,         \* attempts of generate_row
    col_attempts,     \* col_attempts of generate_row_candidate
    final_value,      \* final_value of generate_row_candidate
    dpos,             \* position in the deferred-update loops
    first_run,        \* result of the first run: <<>> or <<GeneratedData>>
    \* ---- direct insertion (output/direct.rs) against a database server
    ins_schema,       \* schema argument of insert_direct
    data,             \* data argument of insert_direct (GeneratedData)
    database,         \* the database: committed rows and sequence counters
    db_before,        \* the database as it was when insert_direct was called
    tx,               \* the open transaction: <<>> or <<rows as the transaction sees them>>
    tx_aborted,       \* PostgreSQL: a statement of the transaction has failed
    ipc,              \* position inside insert_postgres / insert_mysql / insert_sqlite
    ins_ti,           \* index into data.tables
    chunk_start,      \* number of rows of the current table already sent
    ins_di,           \* index into data.deferred_updates
    result,           \* "" while running, then "Ok", "Err" or "Cancelled"
    session,          \* the connection: its FK-enforcement setting and the statements sent
    \* ---- two processes writing one lock file / cache entry (lock/mod.rs, llm/client.rs)
    writer_kind,      \* "lock" (write_lock_file) or "cache" (save_cached_response)
    payload,          \* per process: the bytes it writes (serialized lock / response)
    inodes,           \* file contents by inode number
    dirents,          \* directory: tmp and dest name -> inode number, 0 when absent
    wpc,              \* per process: position in the writer
    wfd,              \* per process: inode its open file refers to
    woff,             \* per process: file offset of its open file
    \* ---- drift detection (check/mod.rs)
    schema_snapshot,  \* schema stored in the lock file
    schema_hash,      \* hash stored in the lock file
    current_schema,   \* schema of the live database
    report,           \* the DriftReport returned by check_drift
    drift_pc,         \* "snapshot", "current" or "checked"
    \* ---- a fresh generate run followed by generate --from-lock (commands/generate.rs)
    wall_clock,       \* chrono::Utc::now().naive_utc()
    seedkit_toml,     \* read_config: None, or Some of the [columns] section
    lock_file,        \* seedkit.lock: None or Some(LockFile)
    llm_cache,        \* ~/.seedkit/cache/<schema hash>.json: None or Some(response)
    fresh_run,        \* what the run that wrote the lock handed to the planner and built
    replay_run,       \* the same for the --from-lock run
    rpc,              \* "fresh", "written" or "done"
    \* ---- one invocation of GenerationPlan::build (generate/plan.rs)
    plan_args,        \* the arguments of build
    plan_built,       \* the table plans it returns
    ppc,              \* "build" or "done"
    \* ---- one call of generate_value for a numeric column (generate/providers.rs)
    value_type,       \* semantic_type
    value_checks,     \* check_constraints: the parsed checks of the column
    value_out,        \* None, or Some of the value returned, in thousandths
    vpc,              \* "call" or "returned"
    \* ---- phases 3 and 4 of the generate command and the lock file (commands/generate.rs)
    out_mode,         \* args.output: "direct", "file" (a path) or "stdout" (None)
    data_pieces,      \* number of writes the writer makes for the generated data
    out_file,         \* the file at the output path: None or Some(content)
    lock_disk,        \* seedkit.lock: None, Some("old") or Some("new")
    lock_tmp,         \* .seedkit.lock.tmp: None or Some(content)
    cpc,              \* "generate", "output", "lock" or "done"
    cmd_result,       \* "" while running, then "Ok" or "Err"
    \* ---- one call of truncate_sql (output/direct.rs)
    sql_statement,    \* sql: the failing statement, a sequence of characters
    sql_preview,      \* None, or Some of the bytes returned
    spc               \* "call", "returned" or "panicked"

graphVars == <<schema, graph, break_at, deferred, cycles, insertion_order,
               filtered_order, include, exclude, table_plans, gpc>>

buildVars == <<build_schema, classifications, plan_first, plan_second, bpc>>

engineVars == <<eng_schema, plan, run, epc, err, rng_stream, rng_pos, unique_tracker,
                fk_pool, generated, table_rows, ti, row_idx, ci, row, attempts,
                col_attempts, final_value, dpos, first_run>>

insertVars == <<ins_schema, data, database, db_before, tx, tx_aborted, ipc, ins_ti, chunk_start,
                ins_di, result, session>>

lockVars == <<writer_kind, payload, inodes, dirents, wpc, wfd, woff>>

driftVars == <<schema_snapshot, schema_hash, current_schema, report, drift_pc>>

replayVars == <<wall_clock, seedkit_toml, lock_file, llm_cache, fresh_run, replay_run, rpc>>

planVars == <<plan_args, plan_built, ppc>>

valueVars == <<value_type, value_checks, value_out, vpc>>

cmdVars == <<out_mode, data_pieces, out_file, lock_disk, lock_tmp, cpc, cmd_result>>

sqlVars == <<sql_statement, sql_preview, spc>>

vars == <<graphVars, buildVars, engineVars, insertVars, lockVars, driftVars, replayVars,
          planVars, valueVars, cmdVars, sqlVars>>

\* Each specification drives one subsystem; the others rest.
GraphIdle ==
    /\ schema = <<>> /\ graph = <<>> /\ break_at = <<>> /\ deferred = <<>> /\ cycles = {}
    /\ insertion_order = <<>> /\ filtered_order = <<>> /\ include = <<>> /\ exclude = <<>>
    /\ table_plans = <<>> /\ gpc = "idle"

BuildIdle ==
    /\ build_schema = <<>> /\ classifications = <<>> /\ plan_first = <<>>
    /\ plan_second = <<>> /\ bpc = "idle"

EngineIdle ==
    /\ eng_schema = <<>> /\ plan = <<>> /\ run = 0 /\ epc = "idle" /\ err = ""
    /\ rng_stream = <<>> /\ rng_pos = 0 /\ unique_tracker = <<>> /\ fk_pool = <<>>
    /\ generated = <<>> /\ table_rows = <<>> /\ ti = 0 /\ row_idx = 0 /\ ci = 0
    /\ row = <<>> /\ attempts = 0 /\ col_attempts = 0 /\ final_value = <<>>
    /\ dpos = <<>> /\ first_run = <<>>

InsertIdle ==
    /\ ins_schema = <<>> /\ data = <<>> /\ database = <<>> /\ db_before = <<>> /\ tx = <<>>
    /\ tx_aborted = FALSE /\ ipc = "idle" /\ ins_ti = 0 /\ chunk_start = 0 /\ ins_di = 0
    /\ result = "" /\ session = <<>>

LockIdle ==
    /\ writer_kind = "" /\ payload = <<>> /\ inodes = <<>> /\ dirents = <<>> /\ wpc = <<>> /\ wfd = <<>>
    /\ woff = <<>>

DriftIdle ==
    /\ schema_snapshot = <<>> /\ schema_hash = <<>> /\ current_schema = <<>>
    /\ report = <<>> /\ drift_pc = "idle"

ReplayIdle ==
    /\ wall_clock = <<>> /\ seedkit_toml = <<>> /\ lock_file = <<>> /\ llm_cache = <<>>
    /\ fresh_run = <<>> /\ replay_run = <<>> /\ rpc = "idle"

PlanIdle == plan_args = <<>> /\ plan_built = <<>> /\ ppc = "idle"

ValueIdle == value_type = "" /\ value_checks = <<>> /\ value_out = <<>> /\ vpc = "idle"

SqlIdle == sql_statement = <<>> /\ sql_preview = <<>> /\ spc = "idle"

CmdIdle ==
    /\ out_mode = "" /\ data_pieces = 0 /\ out_file = <<>> /\ lock_disk = <<>>
    /\ lock_tmp = <<>> /\ cpc = "idle" /\ cmd_result = ""

-----------------------------------------------------------------------------
(* Generic helpers *)

SeqToSet(s) == {s[i] : i \in 1..Len(s)}

Reverse(s) == [i \in 1..Len(s) |-> s[Len(s) + 1 - i]]

Contains(s, x) == \E i \in 1..Len(s) : s[i] = x

IndexOf(s, x) == CHOOSE i \in 1..Len(s) : s[i] = x

\* All orderings of a finite set, as sequences without repetition.
Orderings(S) ==
    {p \in [1..Cardinality(S) -> S] : \A i, j \in 1..Cardinality(S) : i # j => p[i] # p[j]}

RECURSIVE Flatten(_)
Flatten(ss) == IF ss = <<>> THEN <<>> ELSE Head(ss) \o Flatten(Tail(ss))

-----------------------------------------------------------------------------
(* Schema model (schema/types.rs) *)

\* Column of a table.
Column(name, data_type, nullable, auto) ==
    [name |-> name, data_type |-> data_type, nullable |-> nullable,
     has_default |-> FALSE, is_auto_increment |-> auto, max_length |-> 0,
     enum_values |-> <<>>]

\* ForeignKey of a table.
ForeignKey(cols, rtable, rcols, deferrable) ==
    [source_columns |-> cols, referenced_table |-> rtable,
     referenced_columns |-> rcols, on_delete |-> "NoAction",
     is_deferrable |-> deferrable]

\* Table: columns in ordinal order, optional primary key (<<>> when absent).
Table(name, columns, pk, fks, uniques) ==
    [name |-> name, columns |-> columns, primary_key |-> pk,
     foreign_keys |-> fks, unique_constraints |-> uniques,
     check_constraints |-> <<>>]

DatabaseSchema(db, tables) == [database_type |-> db, tables |-> tables]

TableNamesOf(s) == [i \in 1..Len(s.tables) |-> s.tables[i].name]

HasTable(s, name) == \E i \in 1..Len(s.tables) : s.tables[i].name = name

GetTable(s, name) == s.tables[CHOOSE i \in 1..Len(s.tables) : s.tables[i].name = name]

HasColumn(t, c) == \E i \in 1..Len(t.columns) : t.columns[i].name = c

GetColumn(t, c) == t.columns[CHOOSE i \in 1..Len(t.columns) : t.columns[i].name = c]

-----------------------------------------------------------------------------
(* Dependency graph (graph/dag.rs) *)

\* Schemas of the graph pipeline: three tables, each with a serial primary
\* key "id" and up to MaxFks single-column foreign keys in total.
GraphTables == <<"a", "b", "c">>

MaxFks == 3

FkClasses == {"nullable", "deferrable", "plain"}

FkSpecs == [from : 1..Len(GraphTables), to : SeqToSet(GraphTables), cls : FkClasses]

\* FK lists grouped by table, as introspection returns them.
FkSpecLists ==
    {es \in UNION {[1..n -> FkSpecs] : n \in 0..MaxFks} :
        \A i \in 1..(Len(es) - 1) : es[i].from <= es[i + 1].from}

FksOfTable(es, t) == SelectSeq(es, LAMBDA e : e.from = t)

GraphTable(es, t) ==
    LET mine == FksOfTable(es, t)
        col(k) == Column("r" \o ToString(k), "Integer", mine[k].cls = "nullable", FALSE)
        fk(k) == ForeignKey(<<"r" \o ToString(k)>>, mine[k].to, <<"id">>,
                            mine[k].cls = "deferrable")
    IN Table(GraphTables[t],
             <<Column("id", "Serial", FALSE, TRUE)>> \o [k \in 1..Len(mine) |-> col(k)],
             <<"id">>,
             [k \in 1..Len(mine) |-> fk(k)],
             <<>>)

GraphSchema(es) ==
    DatabaseSchema("PostgreSQL", [t \in 1..Len(GraphTables) |-> GraphTable(es, t)])

GraphSchemas == {GraphSchema(es) : es \in FkSpecLists}

\* EdgeInfo plus the endpoints; ord is the insertion number of the edge, which
\* fixes its place in petgraph's per-node adjacency list (newest first).
EdgeOf(t, fk, ord) ==
    [source |-> t.name, target |-> fk.referenced_table, ord |-> ord,
     source_columns |-> fk.source_columns,
     referenced_columns |-> fk.referenced_columns,
     is_nullable |-> \A i \in 1..Len(fk.source_columns) :
                        /\ HasColumn(t, fk.source_columns[i])
                        /\ GetColumn(t, fk.source_columns[i]).nullable,
     is_deferrable |-> fk.is_deferrable]

\* DependencyGraph::from_schema: one edge per FK whose referenced table is a
\* node, in table order and FK order.
from_schema(s) ==
    LET perTable(i) ==
            LET t == s.tables[i]
                kept == SelectSeq(t.foreign_keys, LAMBDA fk : HasTable(s, fk.referenced_table))
            IN [k \in 1..Len(kept) |-> [tbl |-> t, fk |-> kept[k]]]
        all == Flatten([i \in 1..Len(s.tables) |-> perTable(i)])
    IN [k \in 1..Len(all) |-> EdgeOf(all[k].tbl, all[k].fk, k)]

-----------------------------------------------------------------------------
(* Cycle breaking (graph/cycle.rs) *)

Nodes(s) == SeqToSet(TableNamesOf(s))

\* Tables reachable from n over one or more edges of g.
RECURSIVE ReachFrom(_, _)
ReachFrom(g, seen) ==
    LET next == seen \cup {g[i].target : i \in {j \in 1..Len(g) : g[j].source \in seen}}
    IN IF next = seen THEN seen ELSE ReachFrom(g, next)

Reach(g, n) ==
    LET first == {g[i].target : i \in {j \in 1..Len(g) : g[j].source = n}}
    IN IF first = {} THEN {} ELSE ReachFrom(g, first)

\* tarjan_scc: the strongly connected components of the graph.
tarjan_scc(g, nodes) ==
    {{n} \cup {m \in nodes : m \in Reach(g, n) /\ n \in Reach(g, m)} : n \in nodes}

MultiNodeSccs(g, nodes) == {scc \in tarjan_scc(g, nodes) : Cardinality(scc) > 1}

\* petgraph Graph::remove_edge as called by break_cycles: the last edge of
\* the edge vector adopts the removed index; an index past the end removes
\* nothing.
remove_edge(g, idx) ==
    IF idx > Len(g) THEN g
    ELSE LET last == g[Len(g)]
         IN [i \in 1..(Len(g) - 1) |-> IF i = idx THEN last ELSE g[i]]

DeferredEdge(e) ==
    [source_table |-> e.source, source_columns |-> e.source_columns,
     target_table |-> e.target, target_columns |-> e.referenced_columns]

\* The candidate edges of an SCC: both endpoints inside it.
CandidateEdges(g, scc) == {i \in 1..Len(g) : g[i].source \in scc /\ g[i].target \in scc}

UserListed(e, battr) ==
    \E k \in 1..Len(e.source_columns) : Contains(battr, e.source \o "." \o e.source_columns[k])

\* find_best_edge_to_break with priorities 2 and 3 exchanged: a deferrable
\* edge is taken before one whose columns are all nullable.
find_best_edge_deferrable_first(g, scc, battr) ==
    LET cand == CandidateEdges(g, scc)
        p1 == {i \in cand : UserListed(g[i], battr)}
        p2 == {i \in cand : g[i].is_nullable}
        p3 == {i \in cand : g[i].is_deferrable}
    IN IF p1 # {} THEN p1
       ELSE IF p3 # {} THEN p3
       ELSE IF p2 # {} THEN p2
       ELSE cand

\* find_best_edge_to_break: the indices the function may return.  Within a
\* priority class the code takes the first candidate in Tarjan/adjacency
\* order; every member of the class is allowed here.
find_best_edge_to_break(g, scc, battr) ==
    LET cand == CandidateEdges(g, scc)
        p1 == {i \in cand : UserListed(g[i], battr)}
        p2 == {i \in cand : g[i].is_nullable}
        p3 == {i \in cand : g[i].is_deferrable}
    IN IF p1 # {} THEN p1
       ELSE IF p2 # {} THEN p2
       ELSE IF p3 # {} THEN p3
       ELSE cand

\* edges(node): the outgoing edges of a node, newest first.
RECURSIVE SortByOrdDesc(_, _)
SortByOrdDesc(g, idxs) ==
    IF idxs = {} THEN <<>>
    ELSE LET top == CHOOSE i \in idxs : \A j \in idxs : g[j].ord <= g[i].ord
         IN <<top>> \o SortByOrdDesc(g, idxs \ {top})

\* find_self_references: (edge index, edge) of every loop, by node then
\* adjacency order.
find_self_references(g, names) ==
    Flatten([n \in 1..Len(names) |->
        SortByOrdDesc(g, {i \in 1..Len(g) : g[i].source = names[n] /\ g[i].target = names[n]})])

\* The removals of break_cycles' second loop, with the indices collected
\* before the first removal.
RECURSIVE RemoveAll(_, _)
RemoveAll(g, idxs) ==
    IF idxs = <<>> THEN g ELSE RemoveAll(remove_edge(g, Head(idxs)), Tail(idxs))

-----------------------------------------------------------------------------
(* Topological sort (graph/topo.rs) and include/exclude filter (plan.rs) *)

HasCycle(g, nodes) == \E n \in nodes : n \in Reach(g, n)

\* petgraph toposort: any order in which every edge goes from an earlier to
\* a later node.
Toposorts(g, nodes) ==
    {p \in Orderings(nodes) :
        \A i \in 1..Len(g) : IndexOf(p, g[i].source) < IndexOf(p, g[i].target)}

\* Variant of topological_sort that keeps petgraph's order (dependents first).
topological_sort_unreversed(sorted_indices) == sorted_indices

\* topological_sort: the reversed toposort, parents first.
topological_sort(sorted_indices) == Reverse(sorted_indices)

\* The include list closed under "references by FK".
RECURSIVE FkClosure(_, _)
FkClosure(s, set) ==
    LET refs == {fk.referenced_table :
                    fk \in UNION {SeqToSet(GetTable(s, t).foreign_keys) :
                                    t \in {x \in set : HasTable(s, x)}}}
    IN IF refs \subseteq set THEN set ELSE FkClosure(s, set \cup refs)

\* Variant of filter_insertion_order that adds the parents of the included
\* tables but not the parents' parents.
filter_insertion_order_parents_only(order, s, inc, exc) ==
    IF inc = <<>> /\ exc = <<>> THEN order
    ELSE LET refs == {fk.referenced_table :
                        fk \in UNION {SeqToSet(GetTable(s, t).foreign_keys) :
                                        t \in {x \in SeqToSet(inc) : HasTable(s, x)}}}
             start == IF inc = <<>> THEN SeqToSet(order) ELSE SeqToSet(inc) \cup refs
             wanted == start \ SeqToSet(exc)
         IN SelectSeq(order, LAMBDA t : t \in wanted)

filter_insertion_order(order, s, inc, exc) ==
    IF inc = <<>> /\ exc = <<>> THEN order
    ELSE LET start == IF inc = <<>> THEN SeqToSet(order) ELSE FkClosure(s, SeqToSet(inc))
             wanted == start \ SeqToSet(exc)
         IN SelectSeq(order, LAMBDA t : t \in wanted)

-----------------------------------------------------------------------------
(* Generation planner (generate/plan.rs) *)

\* Option<T>: <<>> is None, <<x>> is Some(x).
None == <<>>

Some(x) == <<x>>

IsSome(o) == o # <<>>

\* SemanticType::correlation_group (classify/semantic.rs).
correlation_group(st) ==
    CASE st \in {"StreetAddress", "City", "State", "ZipCode", "PostalCode",
                 "Country", "CountryCode"} -> Some("Address")
      [] st \in {"Latitude", "Longitude"} -> Some("GeoCoordinates")
      [] st \in {"FirstName", "LastName", "FullName", "Email", "Username"} ->
            Some("PersonIdentity")
      [] st \in {"CreatedAt", "UpdatedAt", "DeletedAt"} -> Some("Temporal")
      [] st \in {"StartDate", "EndDate"} -> Some("TemporalRange")
      [] OTHER -> None

\* DataType::is_serial
is_serial(data_type) == data_type \in {"Serial", "BigSerial"}

\* GenerationStrategy, one record shape for all variants.
Strategy(kind) ==
    [kind |-> kind, referenced_table |-> "", referenced_column |-> "",
     values |-> <<>>, weights |-> None, group_index |-> 0, provider_path |-> "",
     distribution |-> None]

\* classifications.get(&(table, column))
Classified(classes, t, c) == <<t, c>> \in DOMAIN classes

SemanticTypeOf(classes, t, c) == IF Classified(classes, t, c) THEN classes[<<t, c>>] ELSE "Unknown"

\* group_map of build: the columns of a table per correlation group, in
\* column order.
GroupColumns(t, classes, grp) ==
    LET cols == SelectSeq(t.columns, LAMBDA c :
                    /\ Classified(classes, t.name, c.name)
                    /\ correlation_group(classes[<<t.name, c.name>>]) = Some(grp))
    IN [i \in 1..Len(cols) |-> <<cols[i].name, classes[<<t.name, cols[i].name>>]>>]

CorrelationGroups == {"Address", "GeoCoordinates", "PersonIdentity", "Temporal", "TemporalRange"}

\* The groups of a table that become CorrelationGroupPlans (two or more
\* columns).
QualifyingGroups(t, classes) ==
    {grp \in CorrelationGroups : Len(GroupColumns(t, classes, grp)) >= 2}

\* The orders in which `for (group, columns) in group_map` may visit the
\* qualifying groups: group_map is a std HashMap, whose iteration order is
\* unspecified and differs from one map instance to the next.
GroupMapIterations(t, classes) == Orderings(QualifyingGroups(t, classes))

\* correlation_groups of a table plan for one iteration order.
CorrelationGroupPlans(t, classes, iter) ==
    [i \in 1..Len(iter) |-> [group |-> iter[i], columns |-> GroupColumns(t, classes, iter[i])]]

\* correlated_columns.get(col): Some(group index, 0-based) or None.
CorrelatedIndex(groups, c) ==
    LET hits == {i \in 1..Len(groups) :
                    \E k \in 1..Len(groups[i].columns) : groups[i].columns[k][1] = c}
    IN IF hits = {} THEN None ELSE Some((CHOOSE i \in hits : TRUE) - 1)

\* deferred_columns.contains_key(&(table, column))
IsDeferredColumn(deferred_edges, t, c) ==
    \E i \in 1..Len(deferred_edges) :
        /\ deferred_edges[i].source_table = t
        /\ Contains(deferred_edges[i].source_columns, c)

\* The first single-column FK whose source column is c.
SingleColumnFk(t, c) ==
    LET hits == {i \in 1..Len(t.foreign_keys) :
                    /\ Len(t.foreign_keys[i].source_columns) = 1
                    /\ t.foreign_keys[i].source_columns[1] = c}
    IN IF hits = {} THEN None
       ELSE Some(t.foreign_keys[CHOOSE i \in hits : \A j \in hits : i <= j])

\* dist_lookup.get(&(table, column)): non-ratio distributions of the profiles.
DistLookup(profiles, t, c) ==
    LET hits == {d \in UNION {SeqToSet(profiles[i].column_distributions) :
                                i \in {j \in 1..Len(profiles) : profiles[j].table_name = t}} :
                    d.column = c /\ d.kind # "Ratio"}
    IN IF hits = {} THEN None ELSE Some(CHOOSE d \in hits : TRUE)

\* Variant of the strategy selection without the guard on the parent table:
\* every single-column foreign key gets ForeignKeyReference.
SelectStrategyUnguarded(s, t, column, classes, order, deferred_edges, column_overrides, profiles, groups) ==
    LET c == column.name
        col_key == t.name \o "." \o c
        cfg == IF col_key \in DOMAIN column_overrides THEN Some(column_overrides[col_key]) ELSE None
        fk == SingleColumnFk(t, c)
        dist == DistLookup(profiles, t.name, c)
        grp == CorrelatedIndex(groups, c)
    IN IF IsSome(cfg) /\ IsSome(cfg[1].values)
         THEN [Strategy("ValueList") EXCEPT !.values = cfg[1].values[1], !.weights = cfg[1].weights]
       ELSE IF IsSome(cfg) /\ IsSome(cfg[1].custom)
         THEN [Strategy("Custom") EXCEPT !.provider_path = cfg[1].custom[1]]
       ELSE IF column.is_auto_increment \/ is_serial(column.data_type)
         THEN IF Contains(t.primary_key, c) THEN Strategy("AutoIncrement")
              ELSE Strategy("SemanticProvider")
       ELSE IF IsDeferredColumn(deferred_edges, t.name, c) THEN Strategy("Deferred")
       ELSE IF IsSome(fk)
         THEN [Strategy("ForeignKeyReference") EXCEPT
                    !.referenced_table = fk[1].referenced_table,
                    !.referenced_column = fk[1].referenced_columns[1]]
       ELSE IF IsSome(dist) THEN [Strategy("Distribution") EXCEPT !.distribution = dist]
       ELSE IF IsSome(column.enum_values)
         THEN [Strategy("EnumValue") EXCEPT !.values = column.enum_values[1]]
       ELSE IF IsSome(grp) THEN [Strategy("Correlated") EXCEPT !.group_index = grp[1]]
       ELSE Strategy("SemanticProvider")

\* Strategy selection of build for one column.
SelectStrategy(s, t, column, classes, order, deferred_edges, column_overrides, profiles, groups) ==
    LET c == column.name
        col_key == t.name \o "." \o c
        cfg == IF col_key \in DOMAIN column_overrides THEN Some(column_overrides[col_key]) ELSE None
        fk == SingleColumnFk(t, c)
        dist == DistLookup(profiles, t.name, c)
        grp == CorrelatedIndex(groups, c)
    IN IF IsSome(cfg) /\ IsSome(cfg[1].values)
         THEN [Strategy("ValueList") EXCEPT !.values = cfg[1].values[1], !.weights = cfg[1].weights]
       ELSE IF IsSome(cfg) /\ IsSome(cfg[1].custom)
         THEN [Strategy("Custom") EXCEPT !.provider_path = cfg[1].custom[1]]
       ELSE IF column.is_auto_increment \/ is_serial(column.data_type)
         THEN IF Contains(t.primary_key, c) THEN Strategy("AutoIncrement")
              ELSE Strategy("SemanticProvider")
       ELSE IF IsDeferredColumn(deferred_edges, t.name, c) THEN Strategy("Deferred")
       ELSE IF IsSome(fk)
         THEN IF Contains(order, fk[1].referenced_table)
              THEN [Strategy("ForeignKeyReference") EXCEPT
                        !.referenced_table = fk[1].referenced_table,
                        !.referenced_column = fk[1].referenced_columns[1]]
              ELSE Strategy("SemanticProvider")
       ELSE IF IsSome(dist) THEN [Strategy("Distribution") EXCEPT !.distribution = dist]
       ELSE IF IsSome(column.enum_values)
         THEN [Strategy("EnumValue") EXCEPT !.values = column.enum_values[1]]
       ELSE IF IsSome(grp) THEN [Strategy("Correlated") EXCEPT !.group_index = grp[1]]
       ELSE Strategy("SemanticProvider")

\* null_probability in percent.
NullProbability(t, column, semantic_type) ==
    IF column.nullable /\ ~Contains(t.primary_key, column.name)
    THEN IF semantic_type = "DeletedAt" THEN 80 ELSE 5
    ELSE 0

ColumnGenerationPlan(s, t, column, classes, order, deferred_edges, column_overrides, profiles, groups) ==
    [column_name |-> column.name,
     semantic_type |-> SemanticTypeOf(classes, t.name, column.name),
     strategy |-> SelectStrategy(s, t, column, classes, order, deferred_edges,
                                 column_overrides, profiles, groups),
     nullable |-> column.nullable,
     null_probability |-> NullProbability(t, column, SemanticTypeOf(classes, t.name, column.name))]

\* ratio_lookup.get(&(table, related_table)) for the first FK that has one;
\* a ratio is [num, den], and the product is rounded half away from zero.
RatioAdjusted(t, profiles, table_row_overrides, default_row_count) ==
    LET ratioOf(rt) ==
            {d \in UNION {SeqToSet(profiles[i].column_distributions) :
                            i \in {j \in 1..Len(profiles) : profiles[j].table_name = t.name}} :
                d.kind = "Ratio" /\ d.related_table = rt}
        hits == {i \in 1..Len(t.foreign_keys) : ratioOf(t.foreign_keys[i].referenced_table) # {}}
    IN IF hits = {} THEN None
       ELSE LET fk == t.foreign_keys[CHOOSE i \in hits : \A j \in hits : i <= j]
                r == (CHOOSE d \in ratioOf(fk.referenced_table) : TRUE).ratio
                parent_count == IF fk.referenced_table \in DOMAIN table_row_overrides
                                THEN table_row_overrides[fk.referenced_table]
                                ELSE default_row_count
            IN Some((2 * parent_count * r.num + r.den) \div (2 * r.den))

RowCount(t, profiles, table_row_overrides, default_row_count) ==
    IF t.name \in DOMAIN table_row_overrides THEN table_row_overrides[t.name]
    ELSE LET adj == RatioAdjusted(t, profiles, table_row_overrides, default_row_count)
         IN IF IsSome(adj) THEN adj[1] ELSE default_row_count

\* One TableGenerationPlan; iter is the iteration order of this table's
\* group_map.
TableGenerationPlan(s, t, classes, order, deferred_edges, default_row_count, table_row_overrides, column_overrides, profiles, iter) ==
    LET groups == CorrelationGroupPlans(t, classes, iter)
    IN [table_name |-> t.name,
        row_count |-> RowCount(t, profiles, table_row_overrides, default_row_count),
        column_plans |-> [i \in 1..Len(t.columns) |->
            ColumnGenerationPlan(s, t, t.columns[i], classes, order, deferred_edges,
                                 column_overrides, profiles, groups)],
        correlation_groups |-> groups]

\* GenerationPlan::build: the table plans, in insertion order, of the tables
\* the schema has; iters gives each table's group_map iteration order.
build(s, classes, order, deferred_edges, default_row_count, table_row_overrides, column_overrides, profiles, iters) ==
    LET present == SelectSeq(order, LAMBDA n : HasTable(s, n))
    IN [i \in 1..Len(present) |->
            TableGenerationPlan(s, GetTable(s, present[i]), classes, order, deferred_edges,
                                default_row_count, table_row_overrides, column_overrides,
                                profiles, iters[present[i]])]

-----------------------------------------------------------------------------
(* The generate pipeline up to the plan (seedkit-cli commands/generate.rs):  *)
(* from_schema, break_cycles, topological_sort, filter_insertion_order and   *)
(* GenerationPlan::build.                                                    *)

BreakAtLists == {<<>>, <<"b.r1">>}

IncludeLists == {<<>>, <<"b">>}

ExcludeLists == {<<>>, <<"c">>}

\* No classification, override or profile: every column is Unknown.
NoEntries == <<>>

InitGraph ==
    /\ schema \in GraphSchemas
    /\ break_at \in BreakAtLists
    /\ graph = <<>>
    /\ deferred = <<>>
    /\ cycles = {}
    /\ insertion_order = <<>>
    /\ filtered_order = <<>>
    /\ include = <<>>
    /\ exclude = <<>>
    /\ table_plans = <<>>
    /\ gpc = "from_schema"
    /\ BuildIdle
    /\ EngineIdle /\ InsertIdle /\ LockIdle /\ DriftIdle /\ ReplayIdle /\ PlanIdle /\ ValueIdle /\ CmdIdle /\ SqlIdle

\* DependencyGraph::from_schema
FromSchema ==
    /\ gpc = "from_schema"
    /\ graph' = from_schema(schema)
    /\ gpc' = "tarjan"
    /\ UNCHANGED <<schema, break_at, deferred, cycles, insertion_order, filtered_order,
                   include, exclude, table_plans>>
    /\ UNCHANGED <<buildVars, engineVars, insertVars, lockVars, driftVars, replayVars, planVars,
                   valueVars, cmdVars, sqlVars>>

\* break_cycles, head of the loop: tarjan_scc and the filter on len() > 1.
TarjanRound ==
    /\ gpc = "tarjan"
    /\ cycles' = MultiNodeSccs(graph, Nodes(schema))
    /\ gpc' = IF cycles' = {} THEN "self_refs" ELSE "break"
    /\ UNCHANGED <<schema, graph, break_at, deferred, insertion_order, filtered_order,
                   include, exclude, table_plans>>
    /\ UNCHANGED <<buildVars, engineVars, insertVars, lockVars, driftVars, replayVars, planVars,
                   valueVars, cmdVars, sqlVars>>

\* break_cycles, one iteration of `for scc in &cycles`.
BreakScc ==
    /\ gpc = "break"
    /\ \E scc \in cycles :
        /\ cycles' = cycles \ {scc}
        /\ IF CandidateEdges(graph, scc) = {}
           THEN /\ gpc' = "error"
                /\ UNCHANGED <<graph, deferred>>
           ELSE \E edge_idx \in find_best_edge_to_break(graph, scc, break_at) :
                /\ deferred' = Append(deferred, DeferredEdge(graph[edge_idx]))
                /\ graph' = remove_edge(graph, edge_idx)
                /\ gpc' = IF cycles' = {} THEN "tarjan" ELSE "break"
    /\ UNCHANGED <<schema, break_at, insertion_order, filtered_order, include, exclude,
                   table_plans>>
    /\ UNCHANGED <<buildVars, engineVars, insertVars, lockVars, driftVars, replayVars, planVars,
                   valueVars, cmdVars, sqlVars>>

\* break_cycles, after the loop: the self-referencing edges are collected
\* first and removed afterwards, by the indices they had when collected.
StripSelfReferences ==
    /\ gpc = "self_refs"
    /\ LET self_refs == find_self_references(graph, TableNamesOf(schema))
       IN /\ deferred' = deferred \o [k \in 1..Len(self_refs) |-> DeferredEdge(graph[self_refs[k]])]
          /\ graph' = RemoveAll(graph, self_refs)
    /\ gpc' = "toposort"
    /\ UNCHANGED <<schema, break_at, cycles, insertion_order, filtered_order, include,
                   exclude, table_plans>>
    /\ UNCHANGED <<buildVars, engineVars, insertVars, lockVars, driftVars, replayVars, planVars,
                   valueVars, cmdVars, sqlVars>>

\* topological_sort: CircularDependency when toposort finds a cycle.
TopologicalSort ==
    /\ gpc = "toposort"
    /\ IF HasCycle(graph, Nodes(schema))
       THEN /\ gpc' = "error"
            /\ UNCHANGED insertion_order
       ELSE /\ \E sorted_indices \in Toposorts(graph, Nodes(schema)) :
                insertion_order' = topological_sort(sorted_indices)
            /\ gpc' = "filter"
    /\ UNCHANGED <<schema, graph, break_at, deferred, cycles, filtered_order, include,
                   exclude, table_plans>>
    /\ UNCHANGED <<buildVars, engineVars, insertVars, lockVars, driftVars, replayVars, planVars,
                   valueVars, cmdVars, sqlVars>>

\* filter_insertion_order with the --include and --exclude lists.
FilterInsertionOrder ==
    /\ gpc = "filter"
    /\ \E inc \in IncludeLists, exc \in ExcludeLists :
        /\ include' = inc
        /\ exclude' = exc
        /\ filtered_order' = filter_insertion_order(insertion_order, schema, inc, exc)
    /\ gpc' = "build"
    /\ UNCHANGED <<schema, graph, break_at, deferred, cycles, insertion_order, table_plans>>
    /\ UNCHANGED <<buildVars, engineVars, insertVars, lockVars, driftVars, replayVars, planVars,
                   valueVars, cmdVars, sqlVars>>

\* GenerationPlan::build over the filtered order.
BuildPlan ==
    /\ gpc = "build"
    /\ table_plans' = build(schema, NoEntries, filtered_order, deferred, 1, NoEntries,
                            NoEntries, <<>>, [n \in Nodes(schema) |-> <<>>])
    /\ gpc' = "done"
    /\ UNCHANGED <<schema, graph, break_at, deferred, cycles, insertion_order,
                   filtered_order, include, exclude>>
    /\ UNCHANGED <<buildVars, engineVars, insertVars, lockVars, driftVars, replayVars, planVars,
                   valueVars, cmdVars, sqlVars>>

NextGraph ==
    \/ FromSchema
    \/ TarjanRound
    \/ BreakScc
    \/ StripSelfReferences
    \/ TopologicalSort
    \/ FilterInsertionOrder
    \/ BuildPlan

SpecGraph == InitGraph /\ [][NextGraph]_vars

SelfLoops(g) == {i \in 1..Len(g) : g[i].source = g[i].target}

\* C2: whenever break_cycles returns Ok, the graph has no strongly connected
\* component of two or more tables and no edge from a table to itself.
C2_CycleClosure ==
    gpc = "toposort" =>
        /\ MultiNodeSccs(graph, Nodes(schema)) = {}
        /\ SelfLoops(graph) = {}

PlanTables == [i \in 1..Len(table_plans) |-> table_plans[i].table_name]

IsDeferredFk(t, fk) ==
    \E i \in 1..Len(deferred) :
        /\ deferred[i].source_table = t
        /\ deferred[i].source_columns = fk.source_columns
        /\ deferred[i].target_table = fk.referenced_table

\* C6: for every foreign key that is not in the deferred list and whose two
\* tables both have a table plan, the parent's plan comes strictly before the
\* child's plan in plan.table_plans, under every include/exclude filter.
C6_TopologicalValidity ==
    gpc = "done" =>
        \A i \in 1..Len(schema.tables) :
            \A k \in 1..Len(schema.tables[i].foreign_keys) :
                LET child == schema.tables[i].name
                    fk == schema.tables[i].foreign_keys[k]
                IN (/\ ~IsDeferredFk(child, fk)
                    /\ Contains(PlanTables, child)
                    /\ Contains(PlanTables, fk.referenced_table))
                   => IndexOf(PlanTables, fk.referenced_table) < IndexOf(PlanTables, child)

\* A plan holding a child and its parent for a kept foreign key, built after
\* a cycle was broken and with a filter in force.
C6_Witness ==
    /\ gpc = "done"
    /\ deferred # <<>>
    /\ include # <<>>
    /\ \E i \in 1..Len(schema.tables) :
        \E k \in 1..Len(schema.tables[i].foreign_keys) :
            LET child == schema.tables[i].name
                fk == schema.tables[i].foreign_keys[k]
            IN /\ ~IsDeferredFk(child, fk)
               /\ Contains(PlanTables, child)
               /\ Contains(PlanTables, fk.referenced_table)

-----------------------------------------------------------------------------
(* Two independent invocations of GenerationPlan::build on equal inputs.     *)

\* One table of MaxBuildColumns text columns; the classifier has given each
\* column one of BuildTypes.
MaxBuildColumns == 4

BuildTypes == {"City", "State", "FirstName", "LastName", "Unknown"}

BuildColumnNames == [i \in 1..MaxBuildColumns |-> "c" \o ToString(i)]

BuildSchema ==
    DatabaseSchema("PostgreSQL",
        <<Table("users",
                [i \in 1..MaxBuildColumns |-> Column(BuildColumnNames[i], "Text", FALSE, FALSE)],
                <<>>, <<>>, <<>>)>>)

BuildClassifications ==
    {[key \in {<<"users", BuildColumnNames[i]>> : i \in 1..MaxBuildColumns} |-> f[key[2]]] :
        f \in [SeqToSet(BuildColumnNames) -> BuildTypes]}

InitBuild ==
    /\ build_schema = BuildSchema
    /\ classifications \in BuildClassifications
    /\ plan_first = <<>>
    /\ plan_second = <<>>
    /\ bpc = "first"
    /\ GraphIdle
    /\ EngineIdle /\ InsertIdle /\ LockIdle /\ DriftIdle /\ ReplayIdle /\ PlanIdle /\ ValueIdle /\ CmdIdle /\ SqlIdle

\* The iteration order each table's group_map gets in one invocation.
BuildIterations(s, classes) ==
    {iters \in [Nodes(s) -> UNION {GroupMapIterations(s.tables[i], classes) : i \in 1..Len(s.tables)}] :
        \A i \in 1..Len(s.tables) :
            iters[s.tables[i].name] \in GroupMapIterations(s.tables[i], classes)}

\* First invocation of GenerationPlan::build.
BuildFirst ==
    /\ bpc = "first"
    /\ \E iters \in BuildIterations(build_schema, classifications) :
        plan_first' = build(build_schema, classifications, TableNamesOf(build_schema), <<>>,
                            2, NoEntries, NoEntries, <<>>, iters)
    /\ bpc' = "second"
    /\ UNCHANGED <<build_schema, classifications, plan_second>>
    /\ UNCHANGED <<graphVars, engineVars, insertVars, lockVars, driftVars, replayVars, planVars,
                   valueVars, cmdVars, sqlVars>>

\* Second invocation, with the same arguments.
BuildSecond ==
    /\ bpc = "second"
    /\ \E iters \in BuildIterations(build_schema, classifications) :
        plan_second' = build(build_schema, classifications, TableNamesOf(build_schema), <<>>,
                             2, NoEntries, NoEntries, <<>>, iters)
    /\ bpc' = "done"
    /\ UNCHANGED <<build_schema, classifications, plan_first>>
    /\ UNCHANGED <<graphVars, engineVars, insertVars, lockVars, driftVars, replayVars, planVars,
                   valueVars, cmdVars, sqlVars>>

NextBuild ==
    \/ BuildFirst
    \/ BuildSecond

SpecBuild == InitBuild /\ [][NextBuild]_vars

\* C5: two invocations of GenerationPlan::build with the same inputs produce
\* equal plans, with the same order of correlation groups in each table.
C5_BuildDeterministic == bpc = "done" => plan_first = plan_second

-----------------------------------------------------------------------------
(* Values, uniqueness tracker and FK pool (generate/value.rs, unique.rs,     *)
(* foreign_key.rs)                                                           *)

\* Value: one record shape for the variants the model uses.
ValueNull == [kind |-> "Null", i |-> 0, s |-> ""]

ValueInt(n) == [kind |-> "Int", i |-> n, s |-> ""]

ValueString(x) == [kind |-> "String", i |-> 0, s |-> x]

ValueUuid(u) == [kind |-> "Uuid", i |-> u, s |-> ""]

is_null(v) == v.kind = "Null"

\* Value::to_unique_key
to_unique_key(v) ==
    CASE v.kind = "Null" -> "__NULL__"
      [] v.kind = "Int" -> ToString(v.i)
      [] v.kind = "String" -> v.s
      [] v.kind = "Uuid" -> "uuid-" \o ToString(v.i)

RECURSIVE Join(_, _)
Join(strs, sep) ==
    IF strs = <<>> THEN ""
    ELSE IF Len(strs) = 1 THEN strs[1]
    ELSE strs[1] \o sep \o Join(Tail(strs), sep)

constraint_key(table_name, columns) == table_name \o ":" \o Join(columns, ",")

\* UniqueTracker::register_constraint
register_constraint(tracker, table_name, columns) ==
    LET key == constraint_key(table_name, columns)
    IN IF key \in DOMAIN tracker THEN tracker ELSE tracker @@ (key :> {})

\* UniqueTracker::try_insert: the returned bool and the tracker afterwards.
try_insert(tracker, table_name, columns, values) ==
    LET key == constraint_key(table_name, columns)
        value_key == Join([k \in 1..Len(values) |-> to_unique_key(values[k])], "|")
    IN IF key \in DOMAIN tracker
       THEN [ok |-> value_key \notin tracker[key],
             tracker |-> [tracker EXCEPT ![key] = @ \cup {value_key}]]
       ELSE [ok |-> TRUE, tracker |-> tracker]

\* UniqueTracker::try_insert_single
try_insert_single(tracker, table_name, column_name, value) ==
    try_insert(tracker, table_name, <<column_name>>, <<value>>)

\* UniqueTracker.max_retries is 1000 and MAX_ROW_RETRIES is 50 in the code;
\* the model runs the same loops with smaller limits.
max_retries == 3

MAX_ROW_RETRIES == 2

\* ForeignKeyPool::record_value
record_value(pool, table_name, column_name, value) ==
    LET key == <<table_name, column_name>>
    IN IF key \in DOMAIN pool THEN [pool EXCEPT ![key] = Append(@, value)]
       ELSE pool @@ (key :> <<value>>)

PoolOf(pool, table_name, column_name) ==
    IF <<table_name, column_name>> \in DOMAIN pool THEN pool[<<table_name, column_name>>]
    ELSE <<>>

\* ForeignKeyPool::pick_reference with rng.random_range(0..len) = d mod len.
pick_reference(pool, table_name, column_name, d) ==
    LET values == PoolOf(pool, table_name, column_name)
    IN IF values = <<>> THEN None ELSE Some(values[(d % Len(values)) + 1])

-----------------------------------------------------------------------------
(* Semantic providers (generate/providers.rs)                                *)

\* One output of the seeded StdRng is a number below RngRange; a f64 in
\* [0, 1) is d / RngRange and random_range(0..n) is d mod n.
RngRange == 2

RawDraws == 0..(RngRange - 1)

\* Uuid::new_v4() reads the operating system's entropy source.
UuidRange == 2

OsEntropy == 0..(UuidRange - 1)

\* The words faker's Word() picks from, shortened.
FakerWords == <<"alias", "consequatur", "aut">>

Statuses == <<"active", "inactive", "pending", "suspended">>

\* format!("{:06}", n)
ZeroPad6(n) ==
    IF n < 10 THEN "00000" \o ToString(n)
    ELSE IF n < 100 THEN "0000" \o ToString(n)
    ELSE ToString(n)

\* Whether generate_value draws from the rng for this semantic type.
ConsumesRng(semantic_type) == semantic_type \notin {"Uuid", "AutoIncrement", "Sku"}

\* generate_value for the semantic types of the model; d is the rng output
\* it draws, u the entropy Uuid::new_v4 reads.
generate_value(semantic_type, d, u, row_index) ==
    CASE semantic_type = "Uuid" -> ValueUuid(u)
      [] semantic_type = "AutoIncrement" -> ValueInt(row_index + 1)
      [] semantic_type = "Sku" -> ValueString("SKU-" \o ZeroPad6(row_index + 1))
      [] semantic_type = "Status" -> ValueString(Statuses[(d % Len(Statuses)) + 1])
      [] OTHER -> ValueString(FakerWords[(d % Len(FakerWords)) + 1])

\* weighted_pick; weights are integers, roll = d / RngRange * total.
weighted_pick(values, weights, d) ==
    LET clamped == [k \in 1..Len(weights) |-> IF weights[k] < 0 THEN 0 ELSE weights[k]]
        cumulative[k \in 0..Len(clamped)] == IF k = 0 THEN 0 ELSE cumulative[k - 1] + clamped[k]
        total == cumulative[Len(clamped)]
        hits == {k \in 1..Len(clamped) : d * total < cumulative[k] * RngRange}
    IN IF Len(values) = 1 THEN ValueString(values[1])
       ELSE IF total <= 0 THEN ValueString(values[(d % Len(values)) + 1])
       ELSE IF hits # {} THEN ValueString(values[CHOOSE k \in hits : \A j \in hits : k <= j])
       ELSE ValueString(values[Len(values)])

-----------------------------------------------------------------------------
(* Generation engine (generate/engine.rs): helpers                           *)

\* IndexMap::get on a row.
RowGet(r, column_name) ==
    LET hits == {k \in 1..Len(r) : r[k].name = column_name}
    IN IF hits = {} THEN None ELSE Some(r[CHOOSE k \in hits : TRUE].value)

RowInsert(r, column_name, value) == Append(r, [name |-> column_name, value |-> value])

\* execute_plan, lines 66-76: the unique constraints and primary keys of the
\* planned tables, registered with empty seen-sets.
RegisterAll(s, tps) ==
    LET tables == {GetTable(s, tps[k].table_name) :
                        k \in {j \in 1..Len(tps) : HasTable(s, tps[j].table_name)}}
        keys == UNION {{constraint_key(t.name, t.unique_constraints[k]) :
                            k \in 1..Len(t.unique_constraints)}
                       \cup (IF t.primary_key # <<>>
                             THEN {constraint_key(t.name, t.primary_key)} ELSE {}) :
                       t \in tables}
    IN [key \in keys |-> {}]

\* Variant of needs_unique that forgets the primary key.
needs_unique_without_pk(s, table_name, column_name) ==
    /\ HasTable(s, table_name)
    /\ \E k \in 1..Len(GetTable(s, table_name).unique_constraints) :
          GetTable(s, table_name).unique_constraints[k] = <<column_name>>

\* needs_unique of generate_row_candidate.
needs_unique(s, table_name, column_name) ==
    /\ HasTable(s, table_name)
    /\ \/ \E k \in 1..Len(GetTable(s, table_name).unique_constraints) :
              GetTable(s, table_name).unique_constraints[k] = <<column_name>>
       \/ GetTable(s, table_name).primary_key = <<column_name>>

\* Variant of composite_constraints that skips two-column constraints.
composite_constraints_over_two(s, table_name) ==
    IF HasTable(s, table_name)
    THEN SelectSeq(GetTable(s, table_name).unique_constraints, LAMBDA uc : Len(uc) > 2)
    ELSE <<>>

\* composite_constraints of generate_row.
composite_constraints(s, table_name) ==
    IF HasTable(s, table_name)
    THEN SelectSeq(GetTable(s, table_name).unique_constraints, LAMBDA uc : Len(uc) > 1)
    ELSE <<>>

\* generate_row, lines 214-224: try_insert per composite constraint until the
\* first collision.
RECURSIVE CheckComposites(_, _, _, _)
CheckComposites(tracker, table_name, constraints, r) ==
    IF constraints = <<>> THEN [collision |-> FALSE, tracker |-> tracker]
    ELSE LET columns == Head(constraints)
             present == SelectSeq(columns, LAMBDA c : IsSome(RowGet(r, c)))
             values == [k \in 1..Len(present) |-> RowGet(r, present[k])[1]]
             res == try_insert(tracker, table_name, columns, values)
         IN IF Len(values) = Len(columns)
            THEN IF res.ok
                 THEN CheckComposites(res.tracker, table_name, Tail(constraints), r)
                 ELSE [collision |-> TRUE, tracker |-> res.tracker]
            ELSE CheckComposites(tracker, table_name, Tail(constraints), r)

\* execute_plan, lines 99-123: the primary-key values of a finished row go to
\* the FK pool; an auto-increment key that is not in the row is synthesized.
RECURSIVE RecordPk(_, _, _, _, _, _)
RecordPk(pool, t, pk_cols, r, row_index, sequence_offset) ==
    IF pk_cols = <<>> THEN pool
    ELSE LET pk_col == Head(pk_cols)
             value == RowGet(r, pk_col)
             is_auto == /\ HasColumn(t, pk_col)
                        /\ \/ GetColumn(t, pk_col).is_auto_increment
                           \/ is_serial(GetColumn(t, pk_col).data_type)
             next == IF IsSome(value)
                     THEN IF ~is_null(value[1])
                          THEN record_value(pool, t.name, pk_col, value[1]) ELSE pool
                     ELSE IF is_auto
                          THEN record_value(pool, t.name, pk_col,
                                            ValueInt(sequence_offset + row_index + 1))
                          ELSE pool
         IN RecordPk(next, t, Tail(pk_cols), r, row_index, sequence_offset)

\* Whether the strategy arm of generate_row_candidate draws from the rng.
StrategyConsumes(cp, pool) ==
    CASE cp.strategy.kind = "ForeignKeyReference" ->
            PoolOf(pool, cp.strategy.referenced_table, cp.strategy.referenced_column) # <<>>
      [] cp.strategy.kind = "EnumValue" -> cp.strategy.values # <<>>
      [] cp.strategy.kind \in {"Correlated", "SemanticProvider"} -> ConsumesRng(cp.semantic_type)
      [] cp.strategy.kind = "ValueList" ->
            /\ cp.strategy.values # <<>>
            /\ (IsSome(cp.strategy.weights) => Len(cp.strategy.values) # 1)
      [] OTHER -> FALSE

\* The strategy match of generate_row_candidate (lines 286-374): "continue",
\* an error, or the value.  The plans of the engine specification have no
\* correlation groups, so a Correlated column finds no pre-generated value.
StrategyOutcome(cp, d, u, row_index, pool) ==
    LET st == cp.strategy
        picked == pick_reference(pool, st.referenced_table, st.referenced_column, d)
        value(v) == [kind |-> "value", value |-> v, err |-> ""]
    IN CASE st.kind \in {"AutoIncrement", "Skip"} ->
                [kind |-> "continue", value |-> ValueNull, err |-> ""]
         [] st.kind = "Deferred" -> value(ValueNull)
         [] st.kind = "ForeignKeyReference" ->
                IF IsSome(picked) THEN value(picked[1])
                ELSE IF cp.nullable THEN value(ValueNull)
                ELSE [kind |-> "error", value |-> ValueNull, err |-> "ForeignKeyResolution"]
         [] st.kind = "EnumValue" ->
                IF st.values = <<>> THEN value(ValueNull)
                ELSE value(ValueString(st.values[(d % Len(st.values)) + 1]))
         [] st.kind \in {"Correlated", "SemanticProvider"} ->
                value(generate_value(cp.semantic_type, d, u, row_index))
         [] st.kind = "Custom" -> [kind |-> "error", value |-> ValueNull, err |-> "Config"]
         [] st.kind = "ValueList" ->
                IF st.values = <<>> THEN value(ValueNull)
                ELSE IF IsSome(st.weights) THEN value(weighted_pick(st.values, st.weights[1], d))
                ELSE value(ValueString(st.values[(d % Len(st.values)) + 1]))

-----------------------------------------------------------------------------
(* Generation engine: inputs                                                 *)

\* Rows per table when no override is given, and the largest override.
MaxRows == 2

\* A parent table p and a child table c(id, p_id -> p, k).
\*   parent.kind  serial: p(id serial PK); natural: p(code text PK);
\*                selfref: p(id serial PK, parent_id -> p.id), deferred
\*   parent.rows  row-count override of p
\*   fk_nullable, fk_unique   c.p_id is nullable / has a unique constraint
\*   kcol         how c.k is generated
\*   k_unique, pair_unique    unique (k) / unique (p_id, k) on c
ParentKinds ==
    [kind : {"serial"}, rows : 0..MaxRows]
        \cup [kind : {"natural", "selfref"}, rows : {MaxRows}]

KColumnKinds == {"Status", "Uuid", "Sku", "values", "weighted", "custom", "enum"}

\* Every child shape over a serial parent with a provider-generated k; the
\* other parents with the rng-free Sku; the configured kinds of k over a full
\* serial parent.
EngineScenarios ==
    {sc \in [parent : ParentKinds, fk_nullable : BOOLEAN, fk_unique : BOOLEAN,
             kcol : KColumnKinds, k_unique : BOOLEAN, pair_unique : BOOLEAN] :
        /\ sc.parent.kind # "serial" => (~sc.fk_nullable /\ sc.kcol = "Sku" /\ ~sc.k_unique)
        /\ sc.kcol \notin {"Status", "Uuid", "Sku"} =>
               (sc.parent.kind = "serial" /\ sc.parent.rows = MaxRows
                /\ ~sc.fk_nullable /\ ~sc.fk_unique)}

ParentTable(sc) ==
    CASE sc.parent.kind = "serial" ->
            Table("p", <<Column("id", "Serial", FALSE, TRUE)>>, <<"id">>, <<>>, <<>>)
      [] sc.parent.kind = "natural" ->
            Table("p", <<Column("code", "Text", FALSE, FALSE)>>, <<"code">>, <<>>, <<>>)
      [] sc.parent.kind = "selfref" ->
            Table("p", <<Column("id", "Serial", FALSE, TRUE),
                         Column("parent_id", "Integer", TRUE, FALSE)>>,
                  <<"id">>, <<ForeignKey(<<"parent_id">>, "p", <<"id">>, FALSE)>>, <<>>)

ParentKey(sc) == IF sc.parent.kind = "natural" THEN "code" ELSE "id"

ChildTable(sc) ==
    LET k == Column("k", "Text", FALSE, FALSE)
    IN Table("c",
             <<Column("id", "Serial", FALSE, TRUE),
               Column("p_id", IF sc.parent.kind = "natural" THEN "Text" ELSE "Integer",
                      sc.fk_nullable, FALSE),
               IF sc.kcol = "enum" THEN [k EXCEPT !.enum_values = Some(<<"e1", "e2">>)] ELSE k>>,
             <<"id">>,
             <<ForeignKey(<<"p_id">>, "p", <<ParentKey(sc)>>, FALSE)>>,
             (IF sc.fk_unique THEN <<(<<"p_id">>)>> ELSE <<>>)
                 \o (IF sc.k_unique THEN <<(<<"k">>)>> ELSE <<>>)
                 \o (IF sc.pair_unique THEN <<(<<"p_id", "k">>)>> ELSE <<>>))

EngineSchema(sc) == DatabaseSchema("PostgreSQL", <<ParentTable(sc), ChildTable(sc)>>)

EngineClassifications(sc) ==
    (IF sc.kcol \in {"Status", "Uuid", "Sku"} THEN <<"c", "k">> :> sc.kcol ELSE <<>>)
        @@ (IF sc.parent.kind = "natural" THEN <<"p", "code">> :> "Status" ELSE <<>>)

\* ColumnConfig entries of seedkit.toml.
EngineColumnOverrides(sc) ==
    CASE sc.kcol = "values" ->
            "c.k" :> [values |-> Some(<<"x", "y">>), weights |-> None, custom |-> None]
      [] sc.kcol = "weighted" ->
            "c.k" :> [values |-> Some(<<"x", "y">>), weights |-> Some(<<1, 3>>), custom |-> None]
      [] sc.kcol = "custom" ->
            "c.k" :> [values |-> None, weights |-> None, custom |-> Some("providers/k.js")]
      [] OTHER -> <<>>

\* What break_cycles returns for the schema: the self-reference of p.
EngineDeferredEdges(sc) ==
    IF sc.parent.kind = "selfref"
    THEN <<[source_table |-> "p", source_columns |-> <<"parent_id">>,
            target_table |-> "p", target_columns |-> <<"id">>]>>
    ELSE <<>>

\* The GenerationPlan that GenerationPlan::build makes for the scenario.
EnginePlan(sc) ==
    [table_plans |-> build(EngineSchema(sc), EngineClassifications(sc), <<"p", "c">>,
                           EngineDeferredEdges(sc), MaxRows, "p" :> sc.parent.rows,
                           EngineColumnOverrides(sc), <<>>, [n \in {"p", "c"} |-> <<>>]),
     deferred_edges |-> EngineDeferredEdges(sc),
     seed |-> 42,
     sequence_offset |-> 0]

-----------------------------------------------------------------------------
(* Generation engine: execute_plan, run twice on the same plan               *)

InitEngine ==
    /\ \E sc \in EngineScenarios :
        /\ eng_schema = EngineSchema(sc)
        /\ plan = EnginePlan(sc)
    /\ run = 1
    /\ epc = "start"
    /\ err = ""
    /\ rng_stream = <<>>
    /\ rng_pos = 0
    /\ unique_tracker = <<>>
    /\ fk_pool = <<>>
    /\ generated = <<>>
    /\ table_rows = <<>>
    /\ ti = 0 /\ row_idx = 0 /\ ci = 0
    /\ row = <<>>
    /\ attempts = 0 /\ col_attempts = 0
    /\ final_value = <<>>
    /\ dpos = <<>>
    /\ first_run = <<>>
    /\ GraphIdle
    /\ BuildIdle /\ InsertIdle /\ LockIdle /\ DriftIdle /\ ReplayIdle /\ PlanIdle /\ ValueIdle /\ CmdIdle /\ SqlIdle

engInputs == <<eng_schema, plan>>

rngVars == <<rng_stream, rng_pos>>

\* The seeded generator is a function of plan.seed: what it returned in the
\* first run it returns again, at the same position, in the second.
NextDraws(consumes) ==
    IF ~consumes THEN {0}
    ELSE IF rng_pos < Len(rng_stream) THEN {rng_stream[rng_pos + 1]}
    ELSE RawDraws

Advance(consumes, d) ==
    IF consumes
    THEN /\ rng_pos' = rng_pos + 1
         /\ rng_stream' = IF rng_pos < Len(rng_stream) THEN rng_stream
                          ELSE Append(rng_stream, d)
    ELSE UNCHANGED rngVars

EntropyFor(semantic_type) == IF semantic_type = "Uuid" THEN OsEntropy ELSE {0}

TablePlan == plan.table_plans[ti]

ColPlan == TablePlan.column_plans[ci]

\* execute_plan, lines 57-76: seed the rng, empty pool, register constraints.
ExecuteStart ==
    /\ epc = "start"
    /\ rng_pos' = 0
    /\ fk_pool' = <<>>
    /\ unique_tracker' = RegisterAll(eng_schema, plan.table_plans)
    /\ generated' = [tables |-> <<>>, deferred_updates |-> <<>>]
    /\ table_rows' = <<>>
    /\ ti' = 1 /\ row_idx' = 0 /\ ci' = 0
    /\ row' = <<>>
    /\ attempts' = 0 /\ col_attempts' = 0
    /\ final_value' = <<>>
    /\ dpos' = <<>>
    /\ epc' = "rows"
    /\ UNCHANGED <<engInputs, run, err, rng_stream, first_run>>
    /\ UNCHANGED <<graphVars, buildVars, insertVars, lockVars, driftVars, replayVars, planVars,
                   valueVars, cmdVars, sqlVars>>

\* execute_plan, lines 81-84 and 138-140: the table and row loops.
RowLoop ==
    /\ epc = "rows"
    /\ IF ti > Len(plan.table_plans)
       THEN /\ epc' = "deferred"
            /\ dpos' = [edge |-> 1, row_idx |-> 0, pair |-> 1]
            /\ UNCHANGED <<generated, table_rows, ti, row_idx, ci, row, attempts>>
       ELSE IF row_idx >= TablePlan.row_count
       THEN /\ generated' = [generated EXCEPT !.tables =
                                Append(@, [name |-> TablePlan.table_name, rows |-> table_rows])]
            /\ table_rows' = <<>>
            /\ ti' = ti + 1
            /\ row_idx' = 0
            /\ UNCHANGED <<epc, dpos, ci, row, attempts>>
       ELSE /\ attempts' = 0
            /\ row' = <<>>
            /\ ci' = 1
            /\ epc' = "column"
            /\ UNCHANGED <<generated, table_rows, ti, row_idx, dpos>>
    /\ UNCHANGED <<engInputs, run, err, rngVars, unique_tracker, fk_pool, col_attempts,
                   final_value, first_run>>
    /\ UNCHANGED <<graphVars, buildVars, insertVars, lockVars, driftVars, replayVars, planVars,
                   valueVars, cmdVars, sqlVars>>

\* generate_row_candidate, lines 276-284: the null roll of the next column.
NullRoll ==
    /\ epc = "column"
    /\ ci <= Len(TablePlan.column_plans)
    /\ LET rolls == ColPlan.nullable /\ ColPlan.null_probability > 0
       IN \E d \in NextDraws(rolls) :
            /\ Advance(rolls, d)
            /\ IF rolls /\ d * 100 < ColPlan.null_probability * RngRange
               THEN /\ row' = RowInsert(row, ColPlan.column_name, ValueNull)
                    /\ ci' = ci + 1
                    /\ UNCHANGED epc
               ELSE /\ epc' = "value"
                    /\ UNCHANGED <<row, ci>>
    /\ UNCHANGED <<engInputs, run, err, unique_tracker, fk_pool, generated, table_rows, ti,
                   row_idx, attempts, col_attempts, final_value, dpos, first_run>>
    /\ UNCHANGED <<graphVars, buildVars, insertVars, lockVars, driftVars, replayVars, planVars,
                   valueVars, cmdVars, sqlVars>>

\* generate_row_candidate, lines 286-416: the strategy's value and the first
\* look at the single-column unique constraint.
ColumnValue ==
    /\ epc = "value"
    /\ LET consumes == StrategyConsumes(ColPlan, fk_pool)
       IN \E d \in NextDraws(consumes), u \in EntropyFor(ColPlan.semantic_type) :
            LET out == StrategyOutcome(ColPlan, d, u, row_idx, fk_pool)
            IN /\ Advance(consumes, d)
               /\ CASE out.kind = "continue" ->
                        /\ ci' = ci + 1
                        /\ epc' = "column"
                        /\ UNCHANGED <<row, err, final_value, col_attempts>>
                    [] out.kind = "error" ->
                        /\ epc' = "error"
                        /\ err' = out.err
                        /\ UNCHANGED <<row, ci, final_value, col_attempts>>
                    [] out.kind = "value" ->
                        IF /\ needs_unique(eng_schema, TablePlan.table_name, ColPlan.column_name)
                           /\ ~is_null(out.value)
                        THEN /\ final_value' = out.value
                             /\ col_attempts' = 0
                             /\ epc' = "unique"
                             /\ UNCHANGED <<row, ci, err>>
                        ELSE /\ row' = RowInsert(row, ColPlan.column_name, out.value)
                             /\ ci' = ci + 1
                             /\ epc' = "column"
                             /\ UNCHANGED <<err, final_value, col_attempts>>
    /\ UNCHANGED <<engInputs, run, unique_tracker, fk_pool, generated, table_rows, ti,
                   row_idx, attempts, dpos, first_run>>
    /\ UNCHANGED <<graphVars, buildVars, insertVars, lockVars, driftVars, replayVars, planVars,
                   valueVars, cmdVars, sqlVars>>

\* Variant of the retry loop that, when max_retries is reached, keeps the
\* colliding value instead of returning UniqueExhausted.
UniqueRetryKeepsValue ==
    /\ epc = "unique"
    /\ LET res == try_insert_single(unique_tracker, TablePlan.table_name,
                                    ColPlan.column_name, final_value)
           consumes == ConsumesRng(ColPlan.semantic_type)
       IN IF res.ok \/ col_attempts + 1 >= max_retries
          THEN /\ unique_tracker' = res.tracker
               /\ row' = RowInsert(row, ColPlan.column_name, final_value)
               /\ ci' = ci + 1
               /\ epc' = "column"
               /\ col_attempts' = IF res.ok THEN col_attempts ELSE col_attempts + 1
               /\ UNCHANGED <<err, final_value, rngVars>>
          ELSE \E d \in NextDraws(consumes), u \in EntropyFor(ColPlan.semantic_type) :
               /\ Advance(consumes, d)
               /\ col_attempts' = col_attempts + 1
               /\ final_value' = generate_value(ColPlan.semantic_type, d, u,
                                                row_idx + col_attempts + 1)
               /\ UNCHANGED <<unique_tracker, row, ci, epc, err>>
    /\ UNCHANGED <<engInputs, run, fk_pool, generated, table_rows, ti, row_idx, attempts,
                   dpos, first_run>>
    /\ UNCHANGED <<graphVars, buildVars, insertVars, lockVars, driftVars, replayVars, planVars,
                   valueVars, cmdVars, sqlVars>>

\* generate_row_candidate, lines 389-412: one turn of the while loop on
\* try_insert_single.
UniqueRetry ==
    /\ epc = "unique"
    /\ LET res == try_insert_single(unique_tracker, TablePlan.table_name,
                                    ColPlan.column_name, final_value)
           consumes == ConsumesRng(ColPlan.semantic_type)
       IN IF res.ok
          THEN /\ unique_tracker' = res.tracker
               /\ row' = RowInsert(row, ColPlan.column_name, final_value)
               /\ ci' = ci + 1
               /\ epc' = "column"
               /\ UNCHANGED <<err, col_attempts, final_value, rngVars>>
          ELSE IF col_attempts + 1 >= max_retries
          THEN /\ col_attempts' = col_attempts + 1
               /\ epc' = "error"
               /\ err' = "UniqueExhausted"
               /\ UNCHANGED <<unique_tracker, row, ci, final_value, rngVars>>
          ELSE \E d \in NextDraws(consumes), u \in EntropyFor(ColPlan.semantic_type) :
               /\ Advance(consumes, d)
               /\ col_attempts' = col_attempts + 1
               /\ final_value' = generate_value(ColPlan.semantic_type, d, u,
                                                row_idx + col_attempts + 1)
               /\ UNCHANGED <<unique_tracker, row, ci, epc, err>>
    /\ UNCHANGED <<engInputs, run, fk_pool, generated, table_rows, ti, row_idx, attempts,
                   dpos, first_run>>
    /\ UNCHANGED <<graphVars, buildVars, insertVars, lockVars, driftVars, replayVars, planVars,
                   valueVars, cmdVars, sqlVars>>

\* generate_row, lines 213-250, and execute_plan, lines 95-126: the composite
\* check of a finished candidate; an accepted row feeds the FK pool and is
\* pushed, a collision starts the next candidate or gives up.
CandidateComplete ==
    /\ epc = "column"
    /\ ci > Len(TablePlan.column_plans)
    /\ LET res == CheckComposites(unique_tracker, TablePlan.table_name,
                                  composite_constraints(eng_schema, TablePlan.table_name), row)
           t == GetTable(eng_schema, TablePlan.table_name)
       IN /\ unique_tracker' = res.tracker
          /\ IF ~res.collision
             THEN /\ fk_pool' = IF HasTable(eng_schema, TablePlan.table_name)
                                THEN RecordPk(fk_pool, t, t.primary_key, row, row_idx,
                                              plan.sequence_offset)
                                ELSE fk_pool
                  /\ table_rows' = Append(table_rows, row)
                  /\ row_idx' = row_idx + 1
                  /\ epc' = "rows"
                  /\ UNCHANGED <<attempts, err, row, ci>>
             ELSE IF attempts + 1 >= MAX_ROW_RETRIES
             THEN /\ attempts' = attempts + 1
                  /\ epc' = "error"
                  /\ err' = "CompositeUniqueExhausted"
                  /\ UNCHANGED <<fk_pool, table_rows, row_idx, row, ci>>
             ELSE /\ attempts' = attempts + 1
                  /\ row' = <<>>
                  /\ ci' = 1
                  /\ UNCHANGED <<fk_pool, table_rows, row_idx, epc, err>>
    /\ UNCHANGED <<engInputs, run, rngVars, generated, ti, col_attempts, final_value,
                   dpos, first_run>>
    /\ UNCHANGED <<graphVars, buildVars, insertVars, lockVars, driftVars, replayVars, planVars,
                   valueVars, cmdVars, sqlVars>>

\* generated.tables.get(name)
GeneratedRows(g, table_name) ==
    LET hits == {k \in 1..Len(g.tables) : g.tables[k].name = table_name}
    IN IF hits = {} THEN None ELSE Some(g.tables[CHOOSE k \in hits : TRUE].rows)

\* execute_plan, lines 145-166: one step of the loops over deferred edges,
\* rows and column pairs.
DeferredUpdates ==
    /\ epc = "deferred"
    /\ IF dpos.edge > Len(plan.deferred_edges)
       THEN /\ epc' = "return"
            /\ UNCHANGED <<dpos, generated, rngVars>>
       ELSE LET edge == plan.deferred_edges[dpos.edge]
                rows == GeneratedRows(generated, edge.source_table)
                pairs == IF Len(edge.source_columns) < Len(edge.target_columns)
                         THEN Len(edge.source_columns) ELSE Len(edge.target_columns)
            IN IF rows = None \/ dpos.row_idx >= Len(rows[1])
               THEN /\ dpos' = [edge |-> dpos.edge + 1, row_idx |-> 0, pair |-> 1]
                    /\ UNCHANGED <<epc, generated, rngVars>>
               ELSE IF dpos.pair > pairs
               THEN /\ dpos' = [dpos EXCEPT !.row_idx = @ + 1, !.pair = 1]
                    /\ UNCHANGED <<epc, generated, rngVars>>
               ELSE LET tgt_col == edge.target_columns[dpos.pair]
                        consumes == PoolOf(fk_pool, edge.target_table, tgt_col) # <<>>
                    IN \E d \in NextDraws(consumes) :
                        LET value == pick_reference(fk_pool, edge.target_table, tgt_col, d)
                        IN /\ Advance(consumes, d)
                           /\ generated' =
                                IF IsSome(value)
                                THEN [generated EXCEPT !.deferred_updates =
                                        Append(@, [table_name |-> edge.source_table,
                                                   row_index |-> dpos.row_idx,
                                                   column_name |-> edge.source_columns[dpos.pair],
                                                   value |-> value[1]])]
                                ELSE generated
                           /\ dpos' = [dpos EXCEPT !.pair = @ + 1]
                           /\ UNCHANGED epc
    /\ UNCHANGED <<engInputs, run, err, unique_tracker, fk_pool, table_rows, ti, row_idx, ci,
                   row, attempts, col_attempts, final_value, first_run>>
    /\ UNCHANGED <<graphVars, buildVars, insertVars, lockVars, driftVars, replayVars, planVars,
                   valueVars, cmdVars, sqlVars>>

\* execute_plan returns Ok(generated); the caller keeps the first result and
\* calls execute_plan again with the same plan and schema.
Return ==
    /\ epc = "return"
    /\ IF run = 1
       THEN /\ first_run' = Some(generated)
            /\ run' = 2
            /\ epc' = "start"
       ELSE /\ epc' = "done"
            /\ UNCHANGED <<first_run, run>>
    /\ UNCHANGED <<engInputs, err, rngVars, unique_tracker, fk_pool, generated, table_rows,
                   ti, row_idx, ci, row, attempts, col_attempts, final_value, dpos>>
    /\ UNCHANGED <<graphVars, buildVars, insertVars, lockVars, driftVars, replayVars, planVars,
                   valueVars, cmdVars, sqlVars>>

NextEngine ==
    \/ ExecuteStart
    \/ RowLoop
    \/ NullRoll
    \/ ColumnValue
    \/ UniqueRetry
    \/ CandidateComplete
    \/ DeferredUpdates
    \/ Return

SpecEngine == InitEngine /\ [][NextEngine]_vars

\* The single-column unique constraints and single-column primary key of a
\* table.
SingleUniqueColumns(t) ==
    {t.unique_constraints[k][1] :
        k \in {j \in 1..Len(t.unique_constraints) : Len(t.unique_constraints[j]) = 1}}
        \cup (IF Len(t.primary_key) = 1 THEN {t.primary_key[1]} ELSE {})

\* C1: in every dataset execute_plan returns, each value of a
\* ForeignKeyReference column is Null or a value recorded in the FK pool of
\* the referenced (table, column) during that run, also when the column has a
\* single-column unique constraint and its first pick collided.
C1_FkIntegrity ==
    epc = "return" =>
        \A k \in 1..Len(generated.tables) :
            \A c \in 1..Len(plan.table_plans[k].column_plans) :
                LET cp == plan.table_plans[k].column_plans[c]
                    rows == generated.tables[k].rows
                IN cp.strategy.kind = "ForeignKeyReference" =>
                    \A i \in 1..Len(rows) :
                        LET v == RowGet(rows[i], cp.column_name)
                        IN IsSome(v) =>
                            \/ is_null(v[1])
                            \/ v[1] \in SeqToSet(PoolOf(fk_pool, cp.strategy.referenced_table,
                                                        cp.strategy.referenced_column))

\* C4: two executions of execute_plan on the same plan and schema return
\* equal GeneratedData (tables, rows, values and deferred updates), for every
\* semantic type including Uuid.
C4_ExecuteDeterministic == epc = "done" => first_run = Some(generated)

\* C7: in every dataset execute_plan returns, no two rows of a table carry the
\* same non-null value in a column that has a single-column unique constraint
\* or is the single-column primary key, whatever strategy generated it.
C7_SingleColumnUnique ==
    epc = "return" =>
        \A k \in 1..Len(generated.tables) :
            LET rows == generated.tables[k].rows
                t == GetTable(eng_schema, generated.tables[k].name)
            IN \A c \in SingleUniqueColumns(t) :
                \A i, j \in 1..Len(rows) :
                    (/\ i # j
                     /\ IsSome(RowGet(rows[i], c))
                     /\ IsSome(RowGet(rows[j], c))
                     /\ ~is_null(RowGet(rows[i], c)[1]))
                    => RowGet(rows[i], c) # RowGet(rows[j], c)

\* A returned table with two non-null values under a single-column unique
\* constraint, the last of which was regenerated after a collision.
C7_Witness ==
    /\ epc = "return"
    /\ col_attempts > 0
    /\ \E k \in 1..Len(generated.tables) :
        LET rows == generated.tables[k].rows
            t == GetTable(eng_schema, generated.tables[k].name)
        IN \E c \in SingleUniqueColumns(t) :
            /\ Len(rows) >= 2
            /\ \A i \in 1..Len(rows) :
                IsSome(RowGet(rows[i], c)) /\ ~is_null(RowGet(rows[i], c)[1])

\* The rows of a table that carry every column of a constraint.
RowTuple(r, columns) == [k \in 1..Len(columns) |-> RowGet(r, columns[k])]

Materialized(r, columns) == \A k \in 1..Len(columns) : IsSome(RowGet(r, columns[k]))

\* C8: in every dataset execute_plan returns, no two rows of a table carry the
\* same tuple of values in the columns of a multi-column unique constraint.
C8_CompositeUnique ==
    epc = "return" =>
        \A k \in 1..Len(generated.tables) :
            LET rows == generated.tables[k].rows
                t == GetTable(eng_schema, generated.tables[k].name)
            IN \A u \in 1..Len(t.unique_constraints) :
                Len(t.unique_constraints[u]) > 1 =>
                    \A i, j \in 1..Len(rows) :
                        (/\ i # j
                         /\ Materialized(rows[i], t.unique_constraints[u])
                         /\ Materialized(rows[j], t.unique_constraints[u]))
                        => RowTuple(rows[i], t.unique_constraints[u])
                               # RowTuple(rows[j], t.unique_constraints[u])

\* A returned table with a multi-column unique constraint whose last row was
\* regenerated after a composite collision.
C8_Witness ==
    /\ epc = "return"
    /\ attempts > 0
    /\ \E k \in 1..Len(generated.tables) :
        LET rows == generated.tables[k].rows
            t == GetTable(eng_schema, generated.tables[k].name)
        IN /\ Len(rows) >= 2
           /\ \E u \in 1..Len(t.unique_constraints) :
                /\ Len(t.unique_constraints[u]) > 1
                /\ \A i \in 1..Len(rows) : Materialized(rows[i], t.unique_constraints[u])

-----------------------------------------------------------------------------
(* Direct insertion (output/direct.rs) *)

\* Rows per table of the inserted datasets, and the batch size (100 in the
\* source, scaled so that a table takes more than one batch).
MaxInsertRows == 3

INSERT_BATCH_SIZE == 2

DatabaseTypes == {"PostgreSQL", "MySQL", "SQLite"}

InsertKinds == {"selfref_serial", "selfref_natural", "cycle_nopk"}

InsertCodes == <<"k1", "k2", "k3", "k4">>

\* A dataset as execute_plan returns it: kind of schema, dialect, row count
\* and, per row, the pool entry picked as its deferred value.
InsertScenarios ==
    UNION {{[kind |-> k, db_type |-> d, n |-> n, picks |-> pk] :
                k \in InsertKinds, d \in DatabaseTypes, pk \in [1..n -> 1..n]} :
           n \in 0..MaxInsertRows}

\* The schema the dataset was generated for.  selfref_*: one table t whose
\* column r references t itself (deferred by break_cycles).  cycle_nopk: t
\* without primary key references b, b references t.x; t.r is deferred.
InsertSchema(sc) ==
    LET serial == IF sc.db_type = "PostgreSQL" THEN "Serial" ELSE "Integer"
    IN CASE sc.kind = "selfref_serial" ->
            DatabaseSchema(sc.db_type,
                <<Table("t", <<Column("id", serial, FALSE, TRUE), Column("v", "Text", FALSE, FALSE),
                               Column("r", "Integer", TRUE, FALSE)>>,
                        <<"id">>, <<ForeignKey(<<"r">>, "t", <<"id">>, FALSE)>>, <<>>)>>)
         [] sc.kind = "selfref_natural" ->
            DatabaseSchema(sc.db_type,
                <<Table("t", <<Column("code", "Text", FALSE, FALSE), Column("r", "Text", TRUE, FALSE)>>,
                        <<"code">>, <<ForeignKey(<<"r">>, "t", <<"code">>, FALSE)>>, <<>>)>>)
         [] sc.kind = "cycle_nopk" ->
            DatabaseSchema(sc.db_type,
                <<Table("t", <<Column("x", "Text", FALSE, FALSE), Column("r", "Integer", TRUE, FALSE)>>,
                        <<>>, <<ForeignKey(<<"r">>, "b", <<"id">>, FALSE)>>, <<(<<"x">>)>>),
                  Table("b", <<Column("id", serial, FALSE, TRUE), Column("t_x", "Text", TRUE, FALSE)>>,
                        <<"id">>, <<ForeignKey(<<"t_x">>, "t", <<"x">>, FALSE)>>, <<>>)>>)

\* GeneratedData of execute_plan for that schema: auto-increment keys are
\* left out of the rows, deferred columns are Null in the rows and carried
\* by one DeferredUpdate per row, whose value comes from the target's pool.
InsertData(sc) ==
    LET key(i) == IF sc.kind = "selfref_natural" THEN ValueString(InsertCodes[i]) ELSE ValueInt(i)
        trow(i) ==
            CASE sc.kind = "selfref_serial" ->
                    <<[name |-> "v", value |-> ValueString("w")], [name |-> "r", value |-> ValueNull]>>
              [] sc.kind = "selfref_natural" ->
                    <<[name |-> "code", value |-> key(i)], [name |-> "r", value |-> ValueNull]>>
              [] sc.kind = "cycle_nopk" ->
                    <<[name |-> "x", value |-> ValueString(InsertCodes[i])],
                      [name |-> "r", value |-> ValueNull]>>
        t == [name |-> "t", rows |-> [i \in 1..sc.n |-> trow(i)]]
        b == [name |-> "b", rows |-> [i \in 1..sc.n |-> <<[name |-> "t_x", value |-> ValueNull]>>]]
    IN [tables |-> IF sc.kind = "cycle_nopk" THEN <<t, b>> ELSE <<t>>,
        deferred_updates |->
            [i \in 1..sc.n |-> [table_name |-> "t", row_index |-> i - 1, column_name |-> "r",
                                value |-> key(sc.picks[i])]]]

\* ---- the database server, as the statements of direct.rs act on it.
\* A stored row is the inserted row plus the key the server assigned (0 when
\* the key came with the row).  rows and seq are by table name.

\* The table has a single auto-increment primary key column (direct.rs:134-138).
HasAutoKey(table) ==
    /\ Len(table.primary_key) = 1
    /\ HasColumn(table, table.primary_key[1])
    /\ LET col == GetColumn(table, table.primary_key[1])
       IN col.is_auto_increment \/ is_serial(col.data_type)

EmptyDatabase(s) ==
    [rows |-> [n \in SeqToSet(TableNamesOf(s)) |-> <<>>],
     seq |-> [n \in SeqToSet(TableNamesOf(s)) |-> 0]]

\* INSERT INTO table (...) VALUES chunk: a row that leaves out the
\* auto-increment key takes the next value of the table's counter.
build_batched_insert(st, table, chunk) ==
    LET auto == HasAutoKey(table) /\ RowGet(chunk[1], table.primary_key[1]) = None
        stored == [k \in 1..Len(chunk) |->
                     [id |-> IF auto THEN st.seq[table.name] + k ELSE 0, cols |-> chunk[k]]]
    IN [rows |-> [st.rows EXCEPT ![table.name] = @ \o stored],
        seq |-> [st.seq EXCEPT ![table.name] = IF auto THEN @ + Len(chunk) ELSE @]]

\* build_deferred_update: None, or the UPDATE statement as a record.
build_deferred_update(update, d, s) ==
    IF ~HasTable(s, update.table_name) THEN None
    ELSE LET table == GetTable(s, update.table_name)
             rows == GeneratedRows(d, update.table_name)
         IN IF table.primary_key = <<>> THEN None
            ELSE IF rows = None \/ update.row_index >= Len(rows[1]) THEN None
            ELSE LET r == rows[1][update.row_index + 1]
                     where_parts ==
                        [k \in 1..Len(table.primary_key) |->
                            LET pk_col == table.primary_key[k]
                            IN [column |-> pk_col,
                                value |-> IF IsSome(RowGet(r, pk_col)) THEN RowGet(r, pk_col)[1]
                                          ELSE ValueInt(update.row_index + 1)]]
                 IN IF where_parts = <<>> THEN None
                    ELSE Some([table_name |-> update.table_name,
                               column_name |-> update.column_name,
                               value |-> update.value, where_parts |-> where_parts])

\* A stored row satisfies the WHERE clause of an UPDATE statement.
WhereMatches(r, sql) ==
    \A k \in 1..Len(sql.where_parts) :
        LET w == sql.where_parts[k]
        IN IF IsSome(RowGet(r.cols, w.column)) THEN RowGet(r.cols, w.column)[1] = w.value
           ELSE w.value.kind = "Int" /\ r.id = w.value.i

\* The server executes UPDATE table SET column = value WHERE parts.
ExecuteUpdate(st, sql) ==
    LET matches(r) == WhereMatches(r, sql)
        set(r) == [r EXCEPT !.cols = [k \in 1..Len(@) |->
                        IF @[k].name = sql.column_name THEN [@[k] EXCEPT !.value = sql.value]
                        ELSE @[k]]]
    IN [st EXCEPT !.rows[sql.table_name] =
            [i \in 1..Len(@) |-> IF matches(@[i]) THEN set(@[i]) ELSE @[i]]]

\* Counters of PostgreSQL sequences and of MySQL AUTO_INCREMENT are not part
\* of the transaction: nextval/setval take effect at once and stay after a
\* rollback.  SQLite keeps its counter in the transaction.
SequenceOutsideTransaction == ins_schema.database_type \in {"PostgreSQL", "MySQL"}

\* Effect of a statement that turned the transaction's view into st.
Executed(st) ==
    /\ tx' = Some(st)
    /\ database' = IF SequenceOutsideTransaction THEN [database EXCEPT !.seq = st.seq]
                   ELSE database

\* The session after one more statement was sent on it.
Logged(kind) == [session EXCEPT !.log = Append(@, kind)]

\* MySQL: SET FOREIGN_KEY_CHECKS takes effect on the session at once.  SQLite:
\* PRAGMA foreign_keys is a no-op while a transaction is open.
FkChecksSet(kind, on) ==
    IF ins_schema.database_type = "MySQL" THEN [Logged(kind) EXCEPT !.fk_checks = on]
    ELSE Logged(kind)

\* The function returns Err through `?`: the Transaction is dropped, which
\* rolls it back.
ReturnErr ==
    /\ result' = "Err"
    /\ ipc' = "done"
    /\ tx' = None
    /\ UNCHANGED <<database, tx_aborted, ins_ti, chunk_start, ins_di>>

\* Outcomes of a statement: it succeeds or fails; in a PostgreSQL
\* transaction that has already seen a failed statement, every further
\* statement fails.
StatementOutcomes == IF tx_aborted THEN {FALSE} ELSE BOOLEAN

InitInsert ==
    /\ \E sc \in InsertScenarios :
        /\ ins_schema = InsertSchema(sc)
        /\ data = InsertData(sc)
    /\ database = EmptyDatabase(ins_schema)
    /\ db_before = database
    /\ tx = None
    /\ tx_aborted = FALSE
    /\ ipc = "connect"
    /\ ins_ti = 1 /\ chunk_start = 0 /\ ins_di = 1
    /\ result = ""
    /\ session = [fk_checks |-> TRUE, log |-> <<>>]
    /\ GraphIdle /\ BuildIdle /\ EngineIdle /\ LockIdle /\ DriftIdle /\ ReplayIdle /\ PlanIdle /\ ValueIdle /\ CmdIdle /\ SqlIdle

\* PgPoolOptions / MySqlPoolOptions / SqlitePoolOptions ... connect(db_url).await
Connect ==
    /\ ipc = "connect"
    /\ \E ok \in BOOLEAN :
        IF ok THEN /\ ipc' = "begin"
                   /\ UNCHANGED <<database, tx, tx_aborted, ins_ti, chunk_start, ins_di, result>>
        ELSE ReturnErr
    /\ UNCHANGED <<ins_schema, data, db_before, session>>
    /\ UNCHANGED <<graphVars, buildVars, engineVars, lockVars, driftVars, replayVars, planVars,
                   valueVars, cmdVars, sqlVars>>

\* pool.begin().await
Begin ==
    /\ ipc = "begin"
    /\ \E ok \in BOOLEAN :
        IF ok THEN /\ tx' = Some(database)
                   /\ ipc' = IF ins_schema.database_type = "PostgreSQL" THEN "tables" ELSE "fk_off"
                   /\ UNCHANGED <<database, tx_aborted, ins_ti, chunk_start, ins_di, result>>
        ELSE ReturnErr
    /\ UNCHANGED <<ins_schema, data, db_before, session>>
    /\ UNCHANGED <<graphVars, buildVars, engineVars, lockVars, driftVars, replayVars, planVars,
                   valueVars, cmdVars, sqlVars>>

\* MySQL: SET FOREIGN_KEY_CHECKS = 0; SQLite: PRAGMA foreign_keys = OFF.
DisableFkChecks ==
    /\ ipc = "fk_off"
    /\ \E ok \in StatementOutcomes :
        IF ok THEN /\ ipc' = "tables"
                   /\ session' = FkChecksSet("fk_off", FALSE)
                   /\ UNCHANGED <<database, tx, tx_aborted, ins_ti, chunk_start, ins_di, result>>
        ELSE ReturnErr /\ session' = Logged("fk_off")
    /\ UNCHANGED <<ins_schema, data, db_before>>
    /\ UNCHANGED <<graphVars, buildVars, engineVars, lockVars, driftVars, replayVars, planVars,
                   valueVars, cmdVars, sqlVars>>

\* for (table_name, rows) in &data.tables: tables without rows are skipped.
TableLoop ==
    /\ ipc = "tables"
    /\ IF ins_ti > Len(data.tables)
       THEN ipc' = "deferred" /\ UNCHANGED <<ins_ti, chunk_start>>
       ELSE IF data.tables[ins_ti].rows = <<>>
       THEN ins_ti' = ins_ti + 1 /\ UNCHANGED <<ipc, chunk_start>>
       ELSE ipc' = "batch" /\ chunk_start' = 0 /\ UNCHANGED ins_ti
    /\ UNCHANGED <<ins_schema, data, database, db_before, tx, tx_aborted, ins_di, result, session>>
    /\ UNCHANGED <<graphVars, buildVars, engineVars, lockVars, driftVars, replayVars, planVars,
                   valueVars, cmdVars, sqlVars>>

\* One chunk of rows.chunks(INSERT_BATCH_SIZE): the batched INSERT; after the
\* last chunk PostgreSQL goes on to the sequence synchronization when the
\* table has an auto-increment primary key.
BatchedInsert ==
    /\ ipc = "batch"
    /\ LET t == data.tables[ins_ti]
           last == IF chunk_start + INSERT_BATCH_SIZE < Len(t.rows)
                   THEN chunk_start + INSERT_BATCH_SIZE ELSE Len(t.rows)
           chunk == SubSeq(t.rows, chunk_start + 1, last)
           sync == /\ ins_schema.database_type = "PostgreSQL"
                   /\ HasTable(ins_schema, t.name)
                   /\ HasAutoKey(GetTable(ins_schema, t.name))
       IN \E ok \in StatementOutcomes :
            IF ok
            THEN /\ Executed(build_batched_insert(tx[1], GetTable(ins_schema, t.name), chunk))
                 /\ chunk_start' = last
                 /\ IF last < Len(t.rows) THEN UNCHANGED <<ipc, ins_ti>>
                    ELSE IF sync THEN ipc' = "setval" /\ UNCHANGED ins_ti
                    ELSE ipc' = "tables" /\ ins_ti' = ins_ti + 1
                 /\ UNCHANGED <<tx_aborted, ins_di, result>>
            ELSE ReturnErr
    /\ UNCHANGED <<ins_schema, data, db_before>>
    /\ session' = Logged("insert")
    /\ UNCHANGED <<graphVars, buildVars, engineVars, lockVars, driftVars, replayVars, planVars,
                   valueVars, cmdVars, sqlVars>>

\* SELECT setval(pg_get_serial_sequence(..), coalesce(max(id), 1), ..): the
\* result is discarded (`let _ =`), so a failure is not returned; it leaves
\* the PostgreSQL transaction aborted.
SequenceSync ==
    /\ ipc = "setval"
    /\ LET name == data.tables[ins_ti].name
           ids == {tx[1].rows[name][i].id : i \in 1..Len(tx[1].rows[name])}
           max == CHOOSE m \in ids : \A i \in ids : i <= m
       IN \E ok \in StatementOutcomes :
            IF ok THEN /\ Executed([tx[1] EXCEPT !.seq[name] = max])
                       /\ UNCHANGED tx_aborted
            ELSE /\ tx_aborted' = TRUE
                 /\ UNCHANGED <<database, tx>>
    /\ ipc' = "tables"
    /\ session' = Logged("setval")
    /\ ins_ti' = ins_ti + 1
    /\ UNCHANGED <<ins_schema, data, db_before, chunk_start, ins_di, result>>
    /\ UNCHANGED <<graphVars, buildVars, engineVars, lockVars, driftVars, replayVars, planVars,
                   valueVars, cmdVars, sqlVars>>

\* execute_deferred_updates_{pg,mysql,sqlite}: one iteration of the loop over
\* data.deferred_updates; an update for which build_deferred_update gives
\* None is passed over.
ExecuteDeferredUpdates ==
    /\ ipc = "deferred"
    /\ IF ins_di > Len(data.deferred_updates)
       THEN /\ ipc' = IF ins_schema.database_type = "PostgreSQL" THEN "commit" ELSE "fk_on"
            /\ UNCHANGED <<database, tx, tx_aborted, ins_ti, chunk_start, ins_di, result, session>>
       ELSE LET sql == build_deferred_update(data.deferred_updates[ins_di], data, ins_schema)
            IN IF sql = None
               THEN /\ ins_di' = ins_di + 1
                    /\ UNCHANGED <<database, tx, tx_aborted, ipc, ins_ti, chunk_start, result,
                                   session>>
               ELSE /\ session' = Logged("update")
                    /\ \E ok \in StatementOutcomes :
                         IF ok THEN /\ Executed(ExecuteUpdate(tx[1], sql[1]))
                                    /\ ins_di' = ins_di + 1
                                    /\ UNCHANGED <<tx_aborted, ipc, ins_ti, chunk_start, result>>
                         ELSE ReturnErr
    /\ UNCHANGED <<ins_schema, data, db_before>>
    /\ UNCHANGED <<graphVars, buildVars, engineVars, lockVars, driftVars, replayVars, planVars,
                   valueVars, cmdVars, sqlVars>>

\* MySQL: SET FOREIGN_KEY_CHECKS = 1; SQLite: PRAGMA foreign_keys = ON; the
\* result is discarded.
EnableFkChecks ==
    /\ ipc = "fk_on"
    /\ \E ok \in StatementOutcomes :
        session' = IF ok THEN FkChecksSet("fk_on", TRUE) ELSE Logged("fk_on")
    /\ ipc' = "commit"
    /\ UNCHANGED <<ins_schema, data, database, db_before, tx, tx_aborted, ins_ti, chunk_start,
                   ins_di, result>>
    /\ UNCHANGED <<graphVars, buildVars, engineVars, lockVars, driftVars, replayVars, planVars,
                   valueVars, cmdVars, sqlVars>>

\* tx.commit().await.  COMMIT of an aborted PostgreSQL transaction rolls it
\* back and completes without an error.
Commit ==
    /\ ipc = "commit"
    /\ \E ok \in BOOLEAN :
        IF ok THEN /\ database' = IF tx_aborted THEN database ELSE tx[1]
                   /\ tx' = None
                   /\ result' = "Ok"
                   /\ ipc' = "done"
                   /\ UNCHANGED <<tx_aborted, ins_ti, chunk_start, ins_di>>
        ELSE ReturnErr
    /\ UNCHANGED <<ins_schema, data, db_before>>
    /\ session' = Logged("commit")
    /\ UNCHANGED <<graphVars, buildVars, engineVars, lockVars, driftVars, replayVars, planVars,
                   valueVars, cmdVars, sqlVars>>

\* The future of insert_direct is dropped while it waits at an await point:
\* the Transaction is dropped with it and rolled back.
Cancel ==
    /\ ipc \in {"connect", "begin", "fk_off", "batch", "setval", "deferred", "fk_on", "commit"}
    /\ result' = "Cancelled"
    /\ ipc' = "done"
    /\ tx' = None
    /\ UNCHANGED <<ins_schema, data, database, db_before, tx_aborted, ins_ti, chunk_start, ins_di,
                   session>>
    /\ UNCHANGED <<graphVars, buildVars, engineVars, lockVars, driftVars, replayVars, planVars,
                   valueVars, cmdVars, sqlVars>>

NextInsert ==
    \/ Connect
    \/ Begin
    \/ DisableFkChecks
    \/ TableLoop
    \/ BatchedInsert
    \/ SequenceSync
    \/ ExecuteDeferredUpdates
    \/ EnableFkChecks
    \/ Commit
    \/ Cancel

SpecInsert == InitInsert /\ [][NextInsert]_vars

\* The rows the run is to add: every generated row with its deferred updates
\* applied.
ExpectedRows(table_name) ==
    LET rows == GeneratedRows(data, table_name)
        final(i, c) ==
            LET ups == {u \in 1..Len(data.deferred_updates) :
                            /\ data.deferred_updates[u].table_name = table_name
                            /\ data.deferred_updates[u].row_index = i - 1
                            /\ data.deferred_updates[u].column_name = c.name}
            IN IF ups = {} THEN c
               ELSE [c EXCEPT !.value =
                        data.deferred_updates[CHOOSE u \in ups : \A v \in ups : v <= u].value]
    IN IF rows = None THEN <<>>
       ELSE [i \in 1..Len(rows[1]) |-> [k \in 1..Len(rows[1][i]) |-> final(i, rows[1][i][k])]]

StoredRows(st, table_name) == [i \in 1..Len(st.rows[table_name]) |-> st.rows[table_name][i].cols]

\* C3: when insert_direct has returned an error or was cancelled, the
\* database (rows and sequence counters) is what it was before the call;
\* when it has returned Ok, every table holds its rows of before plus all
\* generated rows with all deferred updates applied.
C3_DirectInsertAtomic ==
    /\ result \in {"Err", "Cancelled"} => database = db_before
    /\ result = "Ok" =>
        \A n \in DOMAIN database.rows :
            StoredRows(database, n) = StoredRows(db_before, n) \o ExpectedRows(n)

-----------------------------------------------------------------------------
(* Atomic writers: write_lock_file (lock/mod.rs) and save_cached_response   *)
(* (llm/client.rs), run by two processes on the same destination path.      *)

Procs == {1, 2}

\* Length of the payloads in bytes.
MaxPayload == 2

\* The bytes of process p's payload: no byte of one payload occurs in the other.
PayloadOf(p, len) == [i \in 1..len |-> <<p, i>>]

\* The file that was at the destination before: one byte of no writer.
OldContent == <<(<<0, 1>>)>>

\* A byte of a hole: a write past the end of a file fills the gap with zeros.
Nul == <<0, 0>>

\* Both writers use one fixed temporary name next to the destination:
\* dir.join(".seedkit.lock.tmp") and dir.join("{hash}.json.tmp").
InitLock ==
    /\ writer_kind \in {"lock", "cache"}
    /\ payload \in {f \in [Procs -> UNION {[1..n -> Procs \X (1..MaxPayload)] : n \in 1..MaxPayload}] :
                        \A p \in Procs : f[p] = PayloadOf(p, Len(f[p]))}
    /\ \/ inodes = <<>> /\ dirents = [tmp |-> 0, dest |-> 0]
       \/ inodes = <<OldContent>> /\ dirents = [tmp |-> 0, dest |-> 1]
    /\ wpc = [p \in Procs |-> "create"]
    /\ wfd = [p \in Procs |-> 0]
    /\ woff = [p \in Procs |-> 0]
    /\ GraphIdle /\ BuildIdle /\ EngineIdle /\ InsertIdle /\ DriftIdle /\ ReplayIdle /\ PlanIdle /\ ValueIdle /\ CmdIdle /\ SqlIdle

\* Variant of the create step that opens the destination itself instead of
\* the temporary name.
FileCreateInPlace(p) ==
    /\ wpc[p] = "create"
    /\ IF dirents.dest = 0
       THEN /\ inodes' = Append(inodes, <<>>)
            /\ dirents' = [dirents EXCEPT !.dest = Len(inodes) + 1]
            /\ wfd' = [wfd EXCEPT ![p] = Len(inodes) + 1]
       ELSE /\ inodes' = [inodes EXCEPT ![dirents.dest] = <<>>]
            /\ wfd' = [wfd EXCEPT ![p] = dirents.dest]
            /\ UNCHANGED dirents
    /\ woff' = [woff EXCEPT ![p] = 0]
    /\ wpc' = [wpc EXCEPT ![p] = "write"]
    /\ UNCHANGED <<writer_kind, payload>>
    /\ UNCHANGED <<graphVars, buildVars, engineVars, insertVars, driftVars, replayVars, planVars,
                   valueVars, cmdVars, sqlVars>>

\* fs::File::create(&tmp_path) / the open of fs::write(&tmp_path, ..):
\* O_CREAT | O_TRUNC on the temporary name.  An existing file is truncated
\* in place, whoever created it.
FileCreate(p) ==
    /\ wpc[p] = "create"
    /\ IF dirents.tmp = 0
       THEN /\ inodes' = Append(inodes, <<>>)
            /\ dirents' = [dirents EXCEPT !.tmp = Len(inodes) + 1]
            /\ wfd' = [wfd EXCEPT ![p] = Len(inodes) + 1]
       ELSE /\ inodes' = [inodes EXCEPT ![dirents.tmp] = <<>>]
            /\ wfd' = [wfd EXCEPT ![p] = dirents.tmp]
            /\ UNCHANGED dirents
    /\ woff' = [woff EXCEPT ![p] = 0]
    /\ wpc' = [wpc EXCEPT ![p] = "write"]
    /\ UNCHANGED <<writer_kind, payload>>
    /\ UNCHANGED <<graphVars, buildVars, engineVars, insertVars, driftVars, replayVars, planVars,
                   valueVars, cmdVars, sqlVars>>

\* One write(2) of write_all: the next k bytes of the payload go to the open
\* file at its offset.
WriteAll(p) ==
    /\ wpc[p] = "write"
    /\ \E k \in 1..(Len(payload[p]) - woff[p]) :
        LET old == inodes[wfd[p]]
            end == woff[p] + k
            len == IF Len(old) > end THEN Len(old) ELSE end
            new == [i \in 1..len |->
                      IF i > woff[p] /\ i <= end THEN payload[p][i]
                      ELSE IF i <= Len(old) THEN old[i] ELSE Nul]
        IN /\ inodes' = [inodes EXCEPT ![wfd[p]] = new]
           /\ woff' = [woff EXCEPT ![p] = end]
           /\ wpc' = [wpc EXCEPT ![p] = IF end = Len(payload[p]) THEN "sync" ELSE "write"]
    /\ UNCHANGED <<writer_kind, payload, dirents, wfd>>
    /\ UNCHANGED <<graphVars, buildVars, engineVars, insertVars, driftVars, replayVars, planVars,
                   valueVars, cmdVars, sqlVars>>

\* write_lock_file: file.sync_all() on the open file.  save_cached_response:
\* File::open(&tmp_path)?.sync_all()?, which fails when the name is gone.
SyncAll(p) ==
    /\ wpc[p] = "sync"
    /\ wpc' = [wpc EXCEPT ![p] = IF writer_kind = "cache" /\ dirents.tmp = 0
                                 THEN "cleanup" ELSE "rename"]
    /\ UNCHANGED <<writer_kind, payload, inodes, dirents, wfd, woff>>
    /\ UNCHANGED <<graphVars, buildVars, engineVars, insertVars, driftVars, replayVars, planVars,
                   valueVars, cmdVars, sqlVars>>

\* fs::rename(&tmp_path, path): the destination name takes the file the
\* temporary name refers to at that moment; ENOENT when the name is gone.
Rename(p) ==
    /\ wpc[p] = "rename"
    /\ IF dirents.tmp = 0
       THEN /\ wpc' = [wpc EXCEPT ![p] = IF writer_kind = "cache" THEN "cleanup" ELSE "failed"]
            /\ UNCHANGED dirents
       ELSE /\ dirents' = [tmp |-> 0, dest |-> dirents.tmp]
            /\ wpc' = [wpc EXCEPT ![p] = "done"]
    /\ UNCHANGED <<writer_kind, payload, inodes, wfd, woff>>
    /\ UNCHANGED <<graphVars, buildVars, engineVars, insertVars, driftVars, replayVars, planVars,
                   valueVars, cmdVars, sqlVars>>

\* save_cached_response, on failure: let _ = fs::remove_file(&tmp_path).
RemoveTmp(p) ==
    /\ wpc[p] = "cleanup"
    /\ dirents' = [dirents EXCEPT !.tmp = 0]
    /\ wpc' = [wpc EXCEPT ![p] = "failed"]
    /\ UNCHANGED <<writer_kind, payload, inodes, wfd, woff>>
    /\ UNCHANGED <<graphVars, buildVars, engineVars, insertVars, driftVars, replayVars, planVars,
                   valueVars, cmdVars, sqlVars>>

NextLock ==
    \/ \E p \in Procs : FileCreate(p)
    \/ \E p \in Procs : WriteAll(p)
    \/ \E p \in Procs : SyncAll(p)
    \/ \E p \in Procs : Rename(p)
    \/ \E p \in Procs : RemoveTmp(p)

SpecLock == InitLock /\ [][NextLock]_vars

\* C9: whenever the destination name exists it holds the complete payload of
\* one of the two writers (or the file that was there before either wrote).
C9_DestinationComplete ==
    dirents.dest # 0 =>
        inodes[dirents.dest] \in {payload[p] : p \in Procs} \cup {OldContent}

-----------------------------------------------------------------------------
(* Drift detection (check/mod.rs) *)

\* The strings that the sorts of normalize_for_hash compare, in ascending
\* byte order (str::cmp).
StringOrder == <<"author_id", "editor_id", "email", "id", "id > 0", "posts", "title <> ''", "users">>

CmpStr(a, b) ==
    IF a = b THEN 0 ELSE IF IndexOf(StringOrder, a) < IndexOf(StringOrder, b) THEN 0 - 1 ELSE 1

\* Vec<String>::cmp: lexicographic, a proper prefix is smaller.
RECURSIVE CmpSeq(_, _)
CmpSeq(a, b) ==
    IF a = <<>> THEN (IF b = <<>> THEN 0 ELSE 0 - 1)
    ELSE IF b = <<>> THEN 1
    ELSE IF CmpStr(a[1], b[1]) # 0 THEN CmpStr(a[1], b[1])
    ELSE CmpSeq(Tail(a), Tail(b))

\* table.foreign_keys.sort_by(source_columns, then referenced_table): stable.
sort_foreign_keys(fks) ==
    LET cmp(i, j) == IF CmpSeq(fks[i].source_columns, fks[j].source_columns) # 0
                     THEN CmpSeq(fks[i].source_columns, fks[j].source_columns)
                     ELSE CmpStr(fks[i].referenced_table, fks[j].referenced_table)
        before(i) == {j \in 1..Len(fks) : cmp(j, i) < 0 \/ (cmp(j, i) = 0 /\ j < i)}
    IN [pos \in 1..Len(fks) |-> fks[CHOOSE i \in 1..Len(fks) : Cardinality(before(i)) = pos - 1]]

\* table.unique_constraints.sort_by(columns): stable.
sort_unique_constraints(uqs) ==
    LET before(i) == {j \in 1..Len(uqs) :
                        CmpSeq(uqs[j], uqs[i]) < 0 \/ (CmpSeq(uqs[j], uqs[i]) = 0 /\ j < i)}
    IN [pos \in 1..Len(uqs) |-> uqs[CHOOSE i \in 1..Len(uqs) : Cardinality(before(i)) = pos - 1]]

\* table.check_constraints.sort_by(expression): stable.
sort_check_constraints(cks) ==
    LET before(i) == {j \in 1..Len(cks) :
                        CmpStr(cks[j], cks[i]) < 0 \/ (CmpStr(cks[j], cks[i]) = 0 /\ j < i)}
    IN [pos \in 1..Len(cks) |-> cks[CHOOSE i \in 1..Len(cks) : Cardinality(before(i)) = pos - 1]]

normalize_for_hash(s) ==
    [s EXCEPT !.tables = [i \in 1..Len(@) |->
        [@[i] EXCEPT !.foreign_keys = sort_foreign_keys(@),
                     !.unique_constraints = sort_unique_constraints(@),
                     !.check_constraints = sort_check_constraints(@)]]]

\* compute_schema_hash: SHA-256 of the JSON serialization of the normalized
\* schema.  The serialization writes every field and SHA-256 is taken to be
\* free of collisions, so the hash is represented by the normalized schema.
compute_schema_hash(s) == normalize_for_hash(s)

ColumnNamesOf(t) == {t.columns[i].name : i \in 1..Len(t.columns)}

\* check_drift_detailed.  The vectors of the report are kept as sets.
check_drift_detailed(old, current) ==
    LET old_names == SeqToSet(TableNamesOf(old))
        cur_names == SeqToSet(TableNamesOf(current))
        both == cur_names \cap old_names
        fk_ids(t) == {<<t.foreign_keys[i].source_columns, t.foreign_keys[i].referenced_table,
                        t.foreign_keys[i].referenced_columns>> : i \in 1..Len(t.foreign_keys)}
        new_columns == UNION {{<<n, c>> : c \in ColumnNamesOf(GetTable(current, n))
                                                \ ColumnNamesOf(GetTable(old, n))} : n \in both}
        removed_columns == UNION {{<<n, c>> : c \in ColumnNamesOf(GetTable(old, n))
                                                    \ ColumnNamesOf(GetTable(current, n))} : n \in both}
        column_changes(n) ==
            LET o == GetTable(old, n)
                c == GetTable(current, n)
                shared == ColumnNamesOf(o) \cap ColumnNamesOf(c)
            IN {<<n, x, "type_changed">> : x \in {y \in shared :
                        GetColumn(c, y).data_type # GetColumn(o, y).data_type}}
               \cup {<<n, x, "nullable_changed">> : x \in {y \in shared :
                        GetColumn(c, y).nullable # GetColumn(o, y).nullable}}
        constraint_changes(n) ==
            LET o == GetTable(old, n)
                c == GetTable(current, n)
            IN {<<n, f, "fk_added">> : f \in fk_ids(c) \ fk_ids(o)}
               \cup {<<n, f, "fk_removed">> : f \in fk_ids(o) \ fk_ids(c)}
               \cup {<<n, u, "unique_added">> :
                        u \in SeqToSet(c.unique_constraints) \ SeqToSet(o.unique_constraints)}
               \cup {<<n, u, "unique_removed">> :
                        u \in SeqToSet(o.unique_constraints) \ SeqToSet(c.unique_constraints)}
               \cup {<<n, k, "check_added">> :
                        k \in SeqToSet(c.check_constraints) \ SeqToSet(o.check_constraints)}
               \cup {<<n, k, "check_removed">> :
                        k \in SeqToSet(o.check_constraints) \ SeqToSet(c.check_constraints)}
        changed_columns == UNION {column_changes(n) \cup constraint_changes(n) : n \in both}
    IN [has_drift |-> \/ cur_names \ old_names # {}
                      \/ old_names \ cur_names # {}
                      \/ new_columns # {}
                      \/ removed_columns # {}
                      \/ changed_columns # {},
        new_tables |-> cur_names \ old_names,
        removed_tables |-> old_names \ cur_names,
        new_columns |-> new_columns,
        removed_columns |-> removed_columns,
        changed_columns |-> changed_columns]

check_drift(snapshot, hash, current) ==
    IF compute_schema_hash(current) = hash
    THEN [has_drift |-> FALSE, new_tables |-> {}, removed_tables |-> {}, new_columns |-> {},
          removed_columns |-> {}, changed_columns |-> {}]
    ELSE check_drift_detailed(snapshot, current)

\* Snapshot schemas: users(id, email, role) and posts(id, author_id,
\* editor_id, title) with two foreign keys to users, which the database may
\* report in either order.
DriftShapes ==
    [db_type : DatabaseTypes, email_nullable : BOOLEAN, fks_reversed : BOOLEAN,
     has_unique : BOOLEAN, has_check : BOOLEAN]

DriftSchema(sh) ==
    LET serial == IF sh.db_type = "PostgreSQL" THEN "Serial" ELSE "Integer"
        email == [Column("email", "VarChar", sh.email_nullable, FALSE) EXCEPT !.max_length = 255]
        role == [Column("role", "Enum", FALSE, FALSE) EXCEPT !.enum_values = Some(<<"admin", "user">>)]
        author == ForeignKey(<<"author_id">>, "users", <<"id">>, FALSE)
        editor == ForeignKey(<<"editor_id">>, "users", <<"id">>, FALSE)
        users == Table("users", <<Column("id", serial, FALSE, TRUE), email, role>>, <<"id">>, <<>>,
                       IF sh.has_unique THEN <<(<<"email">>)>> ELSE <<>>)
        posts == Table("posts",
                       <<Column("id", serial, FALSE, TRUE), Column("author_id", "Integer", FALSE, FALSE),
                         Column("editor_id", "Integer", TRUE, FALSE), Column("title", "Text", FALSE, FALSE)>>,
                       <<"id">>,
                       IF sh.fks_reversed THEN <<editor, author>> ELSE <<author, editor>>, <<>>)
    IN DatabaseSchema(sh.db_type,
            <<users, [posts EXCEPT !.check_constraints = IF sh.has_check THEN <<"title <> ''">> ELSE <<>>]>>)

ContentChanges ==
    {"table_added", "table_removed", "column_added", "column_removed", "type_changed",
     "nullable_changed", "default_changed", "auto_increment_changed", "max_length_changed",
     "enum_values_changed", "primary_key_changed", "fk_added", "fk_removed",
     "fk_on_delete_changed", "fk_deferrable_changed", "unique_added", "unique_removed",
     "check_added", "check_removed", "database_type_changed", "constraints_reordered"}

\* The live schema after one change of the database since the snapshot.
\* users is tables[1] (email is columns[2], role columns[3]), posts tables[2].
Changed(s, change) ==
    CASE change = "table_added" ->
            [s EXCEPT !.tables = Append(@, Table("tags", <<Column("id", "Integer", FALSE, TRUE)>>,
                                                 <<"id">>, <<>>, <<>>))]
      [] change = "table_removed" -> [s EXCEPT !.tables = <<@[1]>>]
      [] change = "column_added" ->
            [s EXCEPT !.tables[1].columns = Append(@, Column("age", "Integer", TRUE, FALSE))]
      [] change = "column_removed" -> [s EXCEPT !.tables[2].columns = SubSeq(@, 1, Len(@) - 1)]
      [] change = "type_changed" -> [s EXCEPT !.tables[1].columns[2].data_type = "Text"]
      [] change = "nullable_changed" -> [s EXCEPT !.tables[1].columns[2].nullable = ~@]
      [] change = "default_changed" -> [s EXCEPT !.tables[1].columns[2].has_default = ~@]
      [] change = "auto_increment_changed" ->
            [s EXCEPT !.tables[2].columns[1].is_auto_increment = ~@]
      [] change = "max_length_changed" -> [s EXCEPT !.tables[1].columns[2].max_length = 100]
      [] change = "enum_values_changed" ->
            [s EXCEPT !.tables[1].columns[3].enum_values = Some(<<"admin", "user", "guest">>)]
      [] change = "primary_key_changed" -> [s EXCEPT !.tables[2].primary_key = <<"id", "author_id">>]
      [] change = "fk_added" ->
            [s EXCEPT !.tables[2].foreign_keys = Append(@, ForeignKey(<<"id">>, "users", <<"id">>, FALSE))]
      [] change = "fk_removed" -> [s EXCEPT !.tables[2].foreign_keys = Tail(@)]
      [] change = "fk_on_delete_changed" ->
            [s EXCEPT !.tables[2].foreign_keys[1].on_delete = "Cascade"]
      [] change = "fk_deferrable_changed" ->
            [s EXCEPT !.tables[2].foreign_keys[1].is_deferrable = ~@]
      [] change = "unique_added" ->
            [s EXCEPT !.tables[2].unique_constraints = Append(@, <<"author_id">>)]
      [] change = "unique_removed" ->
            [s EXCEPT !.tables[1].unique_constraints = IF @ = <<>> THEN @ ELSE Tail(@)]
      [] change = "check_added" -> [s EXCEPT !.tables[2].check_constraints = Append(@, "id > 0")]
      [] change = "check_removed" ->
            [s EXCEPT !.tables[2].check_constraints = IF @ = <<>> THEN @ ELSE Tail(@)]
      [] change = "database_type_changed" ->
            [s EXCEPT !.database_type = IF @ = "MySQL" THEN "SQLite" ELSE "MySQL"]
      [] change = "constraints_reordered" -> [s EXCEPT !.tables[2].foreign_keys = Reverse(@)]

\* The lock file holds the snapshot and its hash (generate.rs).
InitDrift ==
    /\ \E sh \in DriftShapes : schema_snapshot = DriftSchema(sh)
    /\ schema_hash = compute_schema_hash(schema_snapshot)
    /\ current_schema = <<>>
    /\ report = <<>>
    /\ drift_pc = "snapshot"
    /\ GraphIdle /\ BuildIdle /\ EngineIdle /\ InsertIdle /\ LockIdle /\ ReplayIdle /\ PlanIdle /\ ValueIdle /\ CmdIdle /\ SqlIdle

\* seedkit check introspects the live database.
Introspect ==
    /\ drift_pc = "snapshot"
    /\ \E change \in ContentChanges : current_schema' = Changed(schema_snapshot, change)
    /\ drift_pc' = "current"
    /\ UNCHANGED <<schema_snapshot, schema_hash, report>>
    /\ UNCHANGED <<graphVars, buildVars, engineVars, insertVars, lockVars, replayVars, planVars,
                   valueVars, cmdVars, sqlVars>>

CheckDrift ==
    /\ drift_pc = "current"
    /\ report' = check_drift(schema_snapshot, schema_hash, current_schema)
    /\ drift_pc' = "checked"
    /\ UNCHANGED <<schema_snapshot, schema_hash, current_schema>>
    /\ UNCHANGED <<graphVars, buildVars, engineVars, insertVars, lockVars, replayVars, planVars,
                   valueVars, cmdVars, sqlVars>>

NextDrift ==
    \/ Introspect
    \/ CheckDrift

SpecDrift == InitDrift /\ [][NextDrift]_vars

\* C10: after check_drift(A, hash(A), B), has_drift is true exactly when
\* hash(A) differs from hash(B).
C10_DriftSymmetry ==
    drift_pc = "checked" =>
        (report.has_drift <=> schema_hash # compute_schema_hash(current_schema))

-----------------------------------------------------------------------------
(* Hash stability: the live database is unchanged, but introspection        *)
(* returns the constraints of each table in another order.                  *)

\* Snapshot schemas with three foreign keys, two unique constraints and two
\* check constraints on posts.  The third foreign key is on id, or on
\* author_id again: to users(email), or to users(id) with another ON DELETE
\* action, so that it has the sort key of the first.
HashShapes == [db_type : DatabaseTypes, third_fk : {"other_column", "other_target", "other_action"}]

HashSchema(sh) ==
    LET base == DriftSchema([db_type |-> sh.db_type, email_nullable |-> FALSE,
                             fks_reversed |-> FALSE, has_unique |-> TRUE, has_check |-> TRUE])
        third == CASE sh.third_fk = "other_column" -> ForeignKey(<<"id">>, "users", <<"id">>, FALSE)
                   [] sh.third_fk = "other_target" ->
                        ForeignKey(<<"author_id">>, "users", <<"email">>, FALSE)
                   [] sh.third_fk = "other_action" ->
                        [ForeignKey(<<"author_id">>, "users", <<"id">>, FALSE)
                            EXCEPT !.on_delete = "Cascade"]
    IN [base EXCEPT !.tables[2].foreign_keys = Append(@, third),
                    !.tables[2].unique_constraints = <<(<<"author_id">>), (<<"editor_id", "id">>)>>,
                    !.tables[2].check_constraints = Append(@, "id > 0")]

\* A sequence in the order p (a permutation of its indices).
Permuted(sq, p) == [i \in 1..Len(sq) |-> sq[p[i]]]

InitHash ==
    /\ \E sh \in HashShapes : schema_snapshot = HashSchema(sh)
    /\ schema_hash = compute_schema_hash(schema_snapshot)
    /\ current_schema = <<>>
    /\ report = <<>>
    /\ drift_pc = "snapshot"
    /\ GraphIdle /\ BuildIdle /\ EngineIdle /\ InsertIdle /\ LockIdle /\ ReplayIdle /\ PlanIdle /\ ValueIdle /\ CmdIdle /\ SqlIdle

\* seedkit check introspects the unchanged database: every table's foreign
\* keys, unique constraints and check constraints come back in some order.
Reintrospect ==
    /\ drift_pc = "snapshot"
    /\ \E pf \in Orderings(1..3), pu \in Orderings(1..2), pc \in Orderings(1..2) :
        current_schema' =
            [schema_snapshot EXCEPT !.tables[2].foreign_keys = Permuted(@, pf),
                                    !.tables[2].unique_constraints = Permuted(@, pu),
                                    !.tables[2].check_constraints = Permuted(@, pc)]
    /\ drift_pc' = "current"
    /\ UNCHANGED <<schema_snapshot, schema_hash, report>>
    /\ UNCHANGED <<graphVars, buildVars, engineVars, insertVars, lockVars, replayVars, planVars,
                   valueVars, cmdVars, sqlVars>>

NextHash ==
    \/ Reintrospect
    \/ CheckDrift

SpecHash == InitHash /\ [][NextHash]_vars

\* C11: the hash of a schema whose constraint vectors were permuted equals
\* the hash of the schema, also when two constraints have the same sort key.
C11_HashPermutationInvariant ==
    drift_pc \in {"current", "checked"} => compute_schema_hash(current_schema) = schema_hash

-----------------------------------------------------------------------------
(* generate, then generate --from-lock (seedkit-cli commands/generate.rs,    *)
(* lock/types.rs, llm/parse.rs)                                              *)

MaxDay == 2
MaxSec == 1
MaxFrac == 1
MaxDaysAgo == 1

\* chrono::NaiveDateTime: the day, the second of the day, the sub-second part.
NaiveDateTime(day, sec, frac) == [day |-> day, sec |-> sec, frac |-> frac]

Clocks == {NaiveDateTime(d, s, f) : d \in 1..MaxDay, s \in 0..MaxSec, f \in 0..MaxFrac}

Later(a, b) ==
    \/ a.day < b.day
    \/ a.day = b.day /\ a.sec < b.sec
    \/ a.day = b.day /\ a.sec = b.sec /\ a.frac < b.frac

\* base_time.format("%Y-%m-%dT%H:%M:%S"): the text holds the date and the
\* time of day to the second.
format_base_time(t) == <<t.day, t.sec>>

\* NaiveDateTime::parse_from_str(&self.base_time, "%Y-%m-%dT%H:%M:%S").ok()
parse_base_time(text) ==
    IF Len(text) = 2 THEN Some(NaiveDateTime(text[1], text[2], 0)) ELSE None

\* generate_value for SemanticType::UpdatedAt: base_time - days(days_ago).
generate_updated_at(base_time, days_ago) == [base_time EXCEPT !.day = @ - days_ago]

\* value_to_json of a Timestamp: "%Y-%m-%dT%H:%M:%S%.3f" and a trailing Z.
timestamp_to_json(ts) == <<ts.day, ts.sec, ts.frac, "Z">>

ReplaySchema ==
    DatabaseSchema("PostgreSQL",
        <<Table("events",
                <<Column("id", "Serial", FALSE, TRUE),
                  Column("status", "Text", FALSE, FALSE),
                  Column("notes", "Text", TRUE, FALSE),
                  Column("updated_at", "Timestamp", FALSE, FALSE)>>,
                <<"id">>, <<>>, <<>>)>>)

\* classify_schema(&schema): one entry per column of the schema.
RuleClassifications ==
    (<<"events", "id">> :> "AutoIncrement") @@ (<<"events", "status">> :> "Status")
    @@ (<<"events", "notes">> :> "Unknown") @@ (<<"events", "updated_at">> :> "UpdatedAt")

\* The [columns] section of seedkit.toml a project may have.
TomlColumns ==
    {<<>>,
     "events.status" :> [values |-> Some(<<"open", "closed">>), weights |-> None, custom |-> None],
     "events.status" :> [values |-> Some(<<"open", "closed">>), weights |-> Some(<<1, 3>>),
                        custom |-> None],
     "events.notes" :> [values |-> None, weights |-> None, custom |-> Some("providers/n.js")]}

\* read_config: None when there is no seedkit.toml.
TomlConfigs == {None} \cup {Some(c) : c \in TomlColumns}

\* Parsed LLM responses: at most one classification, confidence in percent.
LlmReplies ==
    {<<>>} \cup
    {<<[table |-> "events", column |-> c, semantic_type |-> st, confidence |-> cf]>> :
        c \in {"notes", "status", "body"}, st \in {"Unknown", "Paragraph"},
        cf \in {40, 90}}

MapInsert(map, key, value) == [k \in DOMAIN map \cup {key} |-> IF k = key THEN value ELSE map[k]]

MapGet(map, key) == IF key \in DOMAIN map THEN map[key] ELSE "Unknown"

RECURSIVE merge_from(_, _, _)
merge_from(merged, llm_results, i) ==
    IF i > Len(llm_results) THEN merged
    ELSE LET c == llm_results[i]
             key == <<c.table, c.column>>
         IN merge_from(IF MapGet(merged, key) = "Unknown" /\ c.confidence >= 50
                       THEN MapInsert(merged, key, c.semantic_type) ELSE merged,
                       llm_results, i + 1)

merge_classifications(rule_based, llm_results) == merge_from(rule_based, llm_results, 1)

\* The cache maps table -> column -> type; here it is keyed by the pair.
build_ai_classification_cache(rule_based, merged) ==
    LET keep == {k \in DOMAIN merged :
                    /\ k \notin DOMAIN rule_based \/ rule_based[k] = "Unknown"
                    /\ merged[k] # "Unknown"}
    IN [k \in keep |-> merged[k]]

\* enhance_with_llm: the cached response when there is one, else the
\* provider's reply; returns <<merged, ai_cache, response>>.
enhance_with_llm(rule_classifications, cached, reply) ==
    LET response == IF IsSome(cached) THEN cached[1] ELSE reply
        merged == merge_classifications(rule_classifications, response)
        cache == build_ai_classification_cache(rule_classifications, merged)
    IN <<merged, IF DOMAIN cache = {} THEN None ELSE Some(cache), response>>

RECURSIVE restore_from(_, _, _)
restore_from(merged, ai_cache, keys) ==
    IF keys = {} THEN merged
    ELSE LET key == CHOOSE k \in keys : TRUE
         IN restore_from(IF MapGet(merged, key) = "Unknown"
                         THEN MapInsert(merged, key, ai_cache[key]) ELSE merged,
                         ai_cache, keys \ {key})

\* restore_ai_from_lock: <<merged, lf.config.ai_classifications>>.
restore_ai_from_lock(rule_classifications, lf) ==
    <<IF IsSome(lf.config.ai_classifications)
      THEN restore_from(rule_classifications, lf.config.ai_classifications[1],
                        DOMAIN lf.config.ai_classifications[1])
      ELSE rule_classifications,
      lf.config.ai_classifications>>

\* The column_overrides field the run stores in LockConfig.
LockColumnOverrides(column_overrides) ==
    IF DOMAIN column_overrides = {} THEN None
    ELSE Some([k \in {x \in DOMAIN column_overrides : IsSome(column_overrides[x].values)} |->
                  [values |-> column_overrides[k].values,
                   weights |-> column_overrides[k].weights]])

\* LockFile::new
LockFileNew(hash, seed, base_time, config, s) ==
    [schema_hash |-> hash, seed |-> seed, config |-> config, schema_snapshot |-> s,
     base_time |-> format_base_time(base_time)]

\* run(args) of the generate command from the classification step on, for a
\* schema that passed the hash check: the classification map and plan it
\* builds, the lock file it writes and the LLM cache it leaves.
GenerateRun(args, config, restored_lock, now, cached, reply) ==
    LET enhanced == enhance_with_llm(RuleClassifications, cached, reply)
        restored == restore_ai_from_lock(RuleClassifications, restored_lock[1])
        classes == IF args.ai THEN enhanced[1]
                   ELSE IF IsSome(restored_lock) THEN restored[1]
                   ELSE RuleClassifications
        ai_cache == IF args.ai THEN enhanced[2]
                    ELSE IF IsSome(restored_lock) THEN restored[2]
                    ELSE None
        seed == IF IsSome(restored_lock) THEN restored_lock[1].seed ELSE args.seed
        row_count == IF IsSome(restored_lock) THEN restored_lock[1].config.default_row_count
                     ELSE args.rows
        base_time == IF IsSome(restored_lock) THEN parse_base_time(restored_lock[1].base_time)
                     ELSE None
        include_tables == IF IsSome(restored_lock) THEN restored_lock[1].config.include_tables
                          ELSE args.include
        exclude_tables == IF IsSome(restored_lock) THEN restored_lock[1].config.exclude_tables
                          ELSE args.exclude
        order == filter_insertion_order(<<"events">>, ReplaySchema, include_tables,
                                        exclude_tables)
        column_overrides == IF IsSome(config) THEN config[1] ELSE <<>>
        built == [table_plans |-> build(ReplaySchema, classes, order, <<>>, row_count,
                                        NoEntries, column_overrides, <<>>,
                                        [n \in {"events"} |-> <<>>]),
                  seed |-> seed,
                  base_time |-> IF IsSome(base_time) THEN base_time[1] ELSE now]
    IN [classifications |-> classes,
        plan |-> built,
        lock |-> LockFileNew(compute_schema_hash(ReplaySchema), seed, built.base_time,
                    [default_row_count |-> row_count, ai_enabled |-> args.ai,
                     include_tables |-> args.include, exclude_tables |-> args.exclude,
                     ai_classifications |-> ai_cache,
                     column_overrides |-> LockColumnOverrides(column_overrides)],
                    ReplaySchema),
        cache |-> IF args.ai THEN Some(enhanced[3]) ELSE cached,
        requested |-> args.ai /\ ~IsSome(cached)]

InitReplay ==
    /\ wall_clock \in {c \in Clocks : c.day = 1}
    /\ seedkit_toml \in TomlConfigs
    /\ lock_file = None
    /\ llm_cache = None
    /\ fresh_run = <<>>
    /\ replay_run = <<>>
    /\ rpc = "fresh"
    /\ GraphIdle /\ BuildIdle /\ EngineIdle /\ InsertIdle /\ LockIdle /\ DriftIdle /\ PlanIdle /\ ValueIdle /\ CmdIdle /\ SqlIdle

\* seedkit generate [--ai | --exclude events] --seed 42 --rows 2
GenerateFresh ==
    /\ rpc = "fresh"
    /\ \E ai \in BOOLEAN, reply \in LlmReplies :
       \E excluded \in IF ai THEN {<<>>} ELSE {<<>>, <<"events">>} :
        LET r == GenerateRun([ai |-> ai, from_lock |-> FALSE, seed |-> 42, rows |-> 2,
                              include |-> <<>>, exclude |-> excluded],
                             seedkit_toml, None, wall_clock, llm_cache, reply)
        IN /\ fresh_run' = [classifications |-> r.classifications, plan |-> r.plan,
                            ai |-> ai, requested |-> r.requested]
           /\ lock_file' = Some(r.lock)
           /\ llm_cache' = r.cache
    /\ rpc' = "written"
    /\ UNCHANGED <<wall_clock, seedkit_toml, replay_run>>
    /\ UNCHANGED <<graphVars, buildVars, engineVars, insertVars, lockVars, driftVars, planVars,
                   valueVars, cmdVars, sqlVars>>

\* Time passes between the two runs.
Tick ==
    /\ rpc = "written"
    /\ \E c \in Clocks : Later(wall_clock, c) /\ wall_clock' = c
    /\ UNCHANGED <<seedkit_toml, lock_file, llm_cache, fresh_run, replay_run, rpc>>
    /\ UNCHANGED <<graphVars, buildVars, engineVars, insertVars, lockVars, driftVars, planVars,
                   valueVars, cmdVars, sqlVars>>

\* seedkit.toml is edited or removed after the lock was written.
EditConfig ==
    /\ rpc = "written"
    /\ \E c \in TomlConfigs \ {seedkit_toml} : seedkit_toml' = c
    /\ UNCHANGED <<wall_clock, lock_file, llm_cache, fresh_run, replay_run, rpc>>
    /\ UNCHANGED <<graphVars, buildVars, engineVars, insertVars, lockVars, driftVars, planVars,
                   valueVars, cmdVars, sqlVars>>

\* The committed lock file is checked out on a machine with its own home
\* directory: no ~/.seedkit/cache entry there.
OtherMachine ==
    /\ rpc = "written"
    /\ llm_cache # None
    /\ llm_cache' = None
    /\ UNCHANGED <<wall_clock, seedkit_toml, lock_file, fresh_run, replay_run, rpc>>
    /\ UNCHANGED <<graphVars, buildVars, engineVars, insertVars, lockVars, driftVars, planVars,
                   valueVars, cmdVars, sqlVars>>

\* seedkit generate --from-lock [--ai], the schema unchanged.
GenerateFromLock ==
    /\ rpc = "written"
    /\ \E ai \in BOOLEAN, reply \in LlmReplies :
        LET r == GenerateRun([ai |-> ai, from_lock |-> TRUE, seed |-> 42, rows |-> 2,
                              include |-> <<>>, exclude |-> <<>>],
                             seedkit_toml, lock_file, wall_clock, llm_cache, reply)
        IN /\ replay_run' = [classifications |-> r.classifications, plan |-> r.plan,
                             ai |-> ai, requested |-> r.requested,
                             restored_lock |-> lock_file[1]]
           /\ lock_file' = Some(r.lock)
           /\ llm_cache' = r.cache
    /\ rpc' = "done"
    /\ UNCHANGED <<wall_clock, seedkit_toml, fresh_run>>
    /\ UNCHANGED <<graphVars, buildVars, engineVars, insertVars, lockVars, driftVars, planVars,
                   valueVars, cmdVars, sqlVars>>

NextReplay ==
    \/ GenerateFresh
    \/ Tick
    \/ EditConfig
    \/ OtherMachine
    \/ GenerateFromLock

SpecReplay == InitReplay /\ [][NextReplay]_vars

\* C12: the --from-lock run builds its plan with exactly the base_time the
\* run that wrote the lock generated with, so a temporal value of the replay
\* is written out as the original run wrote it.
C12_ReplayBaseTime ==
    rpc = "done" =>
        /\ replay_run.plan.base_time = fresh_run.plan.base_time
        /\ \A d \in 0..MaxDaysAgo :
            timestamp_to_json(generate_updated_at(replay_run.plan.base_time, d))
                = timestamp_to_json(generate_updated_at(fresh_run.plan.base_time, d))

\* The ValueList strategies of a plan: table, column, values and weights.
ValueListStrategies(tps) ==
    UNION {{<<tps[i].table_name, tps[i].column_plans[j].column_name,
              tps[i].column_plans[j].strategy.values, tps[i].column_plans[j].strategy.weights>> :
                j \in {k \in 1..Len(tps[i].column_plans) :
                            tps[i].column_plans[k].strategy.kind = "ValueList"}} :
           i \in 1..Len(tps)}

\* C13: the plan of the --from-lock run has the ValueList strategies (values
\* and weights) of the run that wrote the lock, whatever has happened to
\* seedkit.toml since.
C13_ReplayValueLists ==
    rpc = "done" =>
        ValueListStrategies(replay_run.plan.table_plans)
            = ValueListStrategies(fresh_run.plan.table_plans)

\* C14: when an --ai run wrote the lock, the --from-lock run makes no LLM
\* request and hands the planner a map that gives every column the type the
\* merged map of that run gave it.
C14_ReplayClassifications ==
    rpc = "done" /\ fresh_run.ai =>
        /\ ~replay_run.requested
        /\ \A k \in DOMAIN fresh_run.classifications \cup DOMAIN replay_run.classifications :
            MapGet(replay_run.classifications, k) = MapGet(fresh_run.classifications, k)

-----------------------------------------------------------------------------
(* Direct insertion: the sequence synchronization and the FK-check           *)
(* statements (output/direct.rs)                                             *)

\* C15: on PostgreSQL a failed setval does not change the outcome: a run in
\* which a setval failed and which returned Ok has committed every generated
\* row of every table.
C15_SetvalFailureHarmless ==
    /\ ins_schema # <<>>
    /\ ins_schema.database_type = "PostgreSQL"
    /\ tx_aborted
    /\ result = "Ok"
    => \A n \in DOMAIN database.rows :
            Len(database.rows[n]) = Len(db_before.rows[n]) + Len(ExpectedRows(n))

\* Position of a statement kind in the order the MySQL and SQLite paths are to
\* send their statements in.
StatementStage(kind) ==
    CASE kind = "fk_off" -> 1
      [] kind = "insert" -> 2
      [] kind = "update" -> 3
      [] kind = "fk_on" -> 4
      [] kind = "commit" -> 5

\* C16: on MySQL and SQLite the statements are sent in the order: disable FK
\* enforcement, the INSERT batches, the deferred UPDATEs, re-enable FK
\* enforcement, COMMIT; and when COMMIT has been sent, FK enforcement is on
\* again on that session.
C16_FkChecksOrderAndRestore ==
    ins_schema # <<>> /\ ins_schema.database_type \in {"MySQL", "SQLite"} =>
        LET log == session.log
        IN /\ \A i, j \in 1..Len(log) :
                i < j => /\ StatementStage(log[i]) <= StatementStage(log[j])
                         /\ log[i] = log[j] => log[i] \in {"insert", "update"}
           /\ Len(log) > 0 => log[1] = "fk_off"
           /\ \A i \in 1..Len(log) :
                log[i] = "commit" => /\ i > 1
                                     /\ log[i - 1] = "fk_on"
                                     /\ session.fk_checks

-----------------------------------------------------------------------------
(* Deferred updates: their order (generate/engine.rs) and their WHERE clause *)
(* (output/direct.rs)                                                        *)

\* execute_plan, the loops over plan.deferred_edges, the rows of the edge's
\* source table and its column pairs: the updates pushed, in order.  A value
\* is picked when the pool of the target column holds one, which it does for
\* a primary-key column of a table that has a plan with rows.
deferred_updates_of(deferred_edges, tps) ==
    LET planned(t) == {i \in 1..Len(tps) : tps[i].table_name = t}
        of(d) ==
            IF planned(d.source_table) = {}
                \/ \A i \in planned(d.target_table) : tps[i].row_count = 0
            THEN <<>>
            ELSE LET n == tps[CHOOSE i \in planned(d.source_table) : TRUE].row_count
                 IN Flatten([r \in 1..n |->
                        [k \in 1..Len(d.source_columns) |->
                            [table_name |-> d.source_table, row_index |-> r - 1,
                             column_name |-> d.source_columns[k]]]])
    IN Flatten([e \in 1..Len(deferred_edges) |-> of(deferred_edges[e])])

\* C17: the deferred updates are in insertion order of their source tables:
\* of two updates on different tables the one whose table comes earlier in
\* plan.table_plans comes first, and updates of one table are in increasing
\* row index.
C17_DeferredUpdateOrder ==
    gpc = "done" =>
        LET ups == deferred_updates_of(deferred, table_plans)
        IN \A i, j \in 1..Len(ups) :
            i < j =>
                IF ups[i].table_name = ups[j].table_name
                THEN ups[i].row_index <= ups[j].row_index
                ELSE IndexOf(PlanTables, ups[i].table_name)
                        < IndexOf(PlanTables, ups[j].table_name)

MaxSequenceOffset == 2

\* execute_plan on the plan of a self-referencing table, for a caller that
\* sets plan.sequence_offset.
InitOffset ==
    /\ \E sc \in {x \in EngineScenarios : x.parent.kind = "selfref"},
          off \in 0..MaxSequenceOffset :
        /\ eng_schema = EngineSchema(sc)
        /\ plan = [EnginePlan(sc) EXCEPT !.sequence_offset = off]
    /\ run = 1
    /\ epc = "start"
    /\ err = ""
    /\ rng_stream = <<>>
    /\ rng_pos = 0
    /\ unique_tracker = <<>>
    /\ fk_pool = <<>>
    /\ generated = <<>>
    /\ table_rows = <<>>
    /\ ti = 0 /\ row_idx = 0 /\ ci = 0
    /\ row = <<>>
    /\ attempts = 0 /\ col_attempts = 0
    /\ final_value = <<>>
    /\ dpos = <<>>
    /\ first_run = <<>>
    /\ GraphIdle
    /\ BuildIdle /\ InsertIdle /\ LockIdle /\ DriftIdle /\ ReplayIdle /\ PlanIdle /\ ValueIdle /\ CmdIdle /\ SqlIdle

SpecOffset == InitOffset /\ [][NextEngine]_vars

\* C18: for every deferred update on a table whose primary-key column is not
\* in the row, the WHERE clause of the UPDATE built for it uses
\* sequence_offset + row_index + 1, the ID the engine recorded in the FK pool
\* for that row.
C18_WhereMatchesPool ==
    epc \in {"deferred", "return"} =>
        \A u \in 1..Len(generated.deferred_updates) :
            LET update == generated.deferred_updates[u]
                sql == build_deferred_update(update, generated, eng_schema)
                r == GeneratedRows(generated, update.table_name)[1][update.row_index + 1]
            IN sql # None =>
                \A k \in 1..Len(sql[1].where_parts) :
                    LET w == sql[1].where_parts[k]
                    IN ~IsSome(RowGet(r, w.column)) =>
                        /\ w.value = ValueInt(plan.sequence_offset + update.row_index + 1)
                        /\ w.value = PoolOf(fk_pool, update.table_name, w.column)
                                        [update.row_index + 1]

-----------------------------------------------------------------------------
(* break_cycles: what it removes and what it records (graph/cycle.rs)        *)

\* C19: when break_cycles has returned Ok, every edge from_schema made is
\* either still in the graph or recorded exactly once in the deferred list,
\* never both and never neither.
C19_DeferredPartition ==
    gpc = "toposort" =>
        \A k \in 1..Len(from_schema(schema)) :
            LET e == from_schema(schema)[k]
                in_graph == \E i \in 1..Len(graph) : graph[i] = e
                recorded == Cardinality({i \in 1..Len(deferred) : deferred[i] = DeferredEdge(e)})
            IN \/ in_graph /\ recorded = 0
               \/ ~in_graph /\ recorded = 1

\* A step in which break_cycles' first loop records an edge: the edge was
\* removed from an SCC of the round and belongs to the highest priority class
\* the SCC's edges have; with strict, also the closing clause of the rule as
\* it is worded: an edge that is neither nullable nor deferrable is recorded
\* only when the SCC has no user-listed, nullable or deferrable edge.
BreaksByPriority(strict) ==
    gpc = "break" /\ Len(deferred') = Len(deferred) + 1 =>
        \E scc \in cycles, idx \in 1..Len(graph) :
            LET cand == CandidateEdges(graph, scc)
                listed == {i \in cand : UserListed(graph[i], break_at)}
                nullable == {i \in cand : graph[i].is_nullable}
                deferrable == {i \in cand : graph[i].is_deferrable}
            IN /\ Cardinality(scc) > 1
               /\ cycles' = cycles \ {scc}
               /\ idx \in cand
               /\ deferred' = Append(deferred, DeferredEdge(graph[idx]))
               /\ graph' = remove_edge(graph, idx)
               /\ listed # {} => idx \in listed
               /\ listed = {} /\ nullable # {} => idx \in nullable
               /\ listed = {} /\ nullable = {} /\ deferrable # {} => idx \in deferrable
               /\ strict /\ ~graph[idx].is_nullable /\ ~graph[idx].is_deferrable =>
                    listed = {} /\ nullable = {} /\ deferrable = {}

\* C20 as stated: every edge removed from a multi-table SCC is of the highest
\* priority class present (user-listed, else all columns nullable, else
\* deferrable, else any candidate), so that an edge that is neither nullable
\* nor deferrable is deferred only when the SCC has no user-listed, nullable
\* or deferrable edge.
C20_PriorityAsStated == [][BreaksByPriority(TRUE)]_vars

\* C20, amended: every edge removed from a multi-table SCC is of the highest
\* priority class present (user-listed, else all columns nullable, else
\* deferrable, else any candidate).
C20_Priority == [][BreaksByPriority(FALSE)]_vars

\* A mutual cycle has been broken at its nullable edge while the edge back,
\* which is not nullable, stays in the graph.
C20_Witness ==
    /\ gpc = "tarjan"
    /\ Len(deferred) = 1
    /\ \E k, j \in 1..Len(from_schema(schema)) :
        LET e == from_schema(schema)[k]
            back == from_schema(schema)[j]
        IN /\ DeferredEdge(e) = deferred[1]
           /\ e.is_nullable
           /\ ~UserListed(e, break_at)
           /\ back.source = e.target /\ back.target = e.source /\ e.source # e.target
           /\ ~back.is_nullable
           /\ \E i \in 1..Len(graph) : graph[i] = back

-----------------------------------------------------------------------------
(* Mutual cycle of a nullable and a NOT NULL foreign key *)

\* a(r1 NULL -> b.id), b(r1 NOT NULL -> a.id); c has no foreign key and takes
\* no part in the cycle.
MutualCycleSchema ==
    GraphSchema(<<[from |-> 1, to |-> "b", cls |-> "nullable"],
                  [from |-> 2, to |-> "a", cls |-> "plain"]>>)

\* C21 as stated: for A(b_id nullable -> B.id), B(a_id NOT NULL -> A.id),
\* break_cycles followed by topological_sort yields exactly one deferred edge,
\* whose source table is A, and the insertion order [B, A].
C21_MutualCycleAsStated ==
    gpc = "filter" /\ schema = MutualCycleSchema =>
        /\ Len(deferred) = 1
        /\ deferred[1].source_table = "a"
        /\ SelectSeq(insertion_order, LAMBDA t : t \in {"a", "b"}) = <<"b", "a">>

\* C21, amended: for the same schema and an empty break-at list, break_cycles
\* followed by topological_sort yields exactly one deferred edge, whose source
\* table is A, and the insertion order [A, B]: the parent of the kept NOT NULL
\* foreign key comes first.
C21_MutualCycle ==
    gpc = "filter" /\ schema = MutualCycleSchema /\ break_at = <<>> =>
        /\ Len(deferred) = 1
        /\ deferred[1].source_table = "a"
        /\ SelectSeq(insertion_order, LAMBDA t : t \in {"a", "b"}) = <<"a", "b">>

\* topological_sort has returned for the mutual cycle.
C21_Witness ==
    /\ gpc = "filter"
    /\ schema = MutualCycleSchema
    /\ break_at = <<>>
    /\ Len(insertion_order) = 3

-----------------------------------------------------------------------------
(* Two-phase emission for a broken mutual cycle (generate/engine.rs)         *)

\* p(id, c_id NULL -> c.id) and c(id, p_id NOT NULL -> p.id): break_cycles
\* defers p.c_id -> c.id and the insertion order is [p, c].
\*   p_rows, c_rows   row-count overrides
\*   excluded         generate --exclude c, --exclude p, or no filter
\*   c_id_values      seedkit.toml lists values for p.c_id
\*   fk_unique        c.p_id has a unique constraint
CycleScenarios ==
    [p_rows : 1..MaxRows, c_rows : 0..MaxRows, excluded : {<<>>, <<"c">>, <<"p">>},
     c_id_values : BOOLEAN, fk_unique : BOOLEAN]

CycleSchema(sc) ==
    DatabaseSchema("PostgreSQL",
        <<Table("p", <<Column("id", "Serial", FALSE, TRUE),
                       Column("c_id", "Integer", TRUE, FALSE)>>,
                <<"id">>, <<ForeignKey(<<"c_id">>, "c", <<"id">>, FALSE)>>, <<>>),
          Table("c", <<Column("id", "Serial", FALSE, TRUE),
                       Column("p_id", "Integer", FALSE, FALSE)>>,
                <<"id">>, <<ForeignKey(<<"p_id">>, "p", <<"id">>, FALSE)>>,
                IF sc.fk_unique THEN <<(<<"p_id">>)>> ELSE <<>>)>>)

CycleDeferredEdges ==
    <<[source_table |-> "p", source_columns |-> <<"c_id">>,
       target_table |-> "c", target_columns |-> <<"id">>]>>

\* The plan the generate command builds for the scenario.
CyclePlan(sc) ==
    [table_plans |->
        build(CycleSchema(sc), <<>>,
              filter_insertion_order(<<"p", "c">>, CycleSchema(sc), <<>>, sc.excluded),
              CycleDeferredEdges, MaxRows, ("p" :> sc.p_rows) @@ ("c" :> sc.c_rows),
              IF sc.c_id_values
              THEN "p.c_id" :> [values |-> Some(<<"7", "8">>), weights |-> None, custom |-> None]
              ELSE <<>>,
              <<>>, [n \in {"p", "c"} |-> <<>>]),
     deferred_edges |-> CycleDeferredEdges,
     seed |-> 42,
     sequence_offset |-> 0]

InitCycle ==
    /\ \E sc \in CycleScenarios :
        /\ eng_schema = CycleSchema(sc)
        /\ plan = CyclePlan(sc)
    /\ run = 1
    /\ epc = "start"
    /\ err = ""
    /\ rng_stream = <<>>
    /\ rng_pos = 0
    /\ unique_tracker = <<>>
    /\ fk_pool = <<>>
    /\ generated = <<>>
    /\ table_rows = <<>>
    /\ ti = 0 /\ row_idx = 0 /\ ci = 0
    /\ row = <<>>
    /\ attempts = 0 /\ col_attempts = 0
    /\ final_value = <<>>
    /\ dpos = <<>>
    /\ first_run = <<>>
    /\ GraphIdle
    /\ BuildIdle /\ InsertIdle /\ LockIdle /\ DriftIdle /\ ReplayIdle /\ PlanIdle /\ ValueIdle /\ CmdIdle /\ SqlIdle

SpecCycle == InitCycle /\ [][NextEngine]_vars

\* The deferred updates recorded for one row and column.
UpdatesFor(table_name, row_index, column_name) ==
    {u \in 1..Len(generated.deferred_updates) :
        /\ generated.deferred_updates[u].table_name = table_name
        /\ generated.deferred_updates[u].row_index = row_index
        /\ generated.deferred_updates[u].column_name = column_name}

\* C22: when execute_plan returns, for every deferred edge whose source table
\* is in the plan and every generated row of that table, each source column
\* of the edge is Null in the row and exactly one DeferredUpdate is recorded
\* for that row and column, with a value of the target table's primary-key
\* pool.
C22_TwoPhaseEmission ==
    epc = "return" =>
        \A e \in 1..Len(plan.deferred_edges) :
            LET edge == plan.deferred_edges[e]
                rows == GeneratedRows(generated, edge.source_table)
                target == GetTable(eng_schema, edge.target_table)
            IN IsSome(rows) =>
                \A r \in 1..Len(rows[1]), k \in 1..Len(edge.source_columns) :
                    /\ RowGet(rows[1][r], edge.source_columns[k]) = Some(ValueNull)
                    /\ Cardinality(UpdatesFor(edge.source_table, r - 1, edge.source_columns[k])) = 1
                    /\ \A u \in UpdatesFor(edge.source_table, r - 1, edge.source_columns[k]) :
                        \E j \in 1..Len(target.primary_key) :
                            Contains(PoolOf(fk_pool, edge.target_table, target.primary_key[j]),
                                     generated.deferred_updates[u].value)

-----------------------------------------------------------------------------
(* GenerationPlan::build on one set of arguments (generate/plan.rs)          *)

\* Arguments for the strategy of column x of t(id serial PK, x, y):
\*   override   the seedkit.toml entry for t.x
\*   auto       x is an auto-increment column
\*   in_pk      x belongs to the primary key
\*   fk         x references q.id (q in the order or excluded), t.id (a
\*              self-reference, which break_cycles defers), or nothing
\*   dist       a distribution profile names t.x
\*   enum       x carries enum values
\*   grouped    x is classified City next to y, classified State
StrategyFeatures ==
    [override : {"none", "values", "custom", "weights"}, auto : BOOLEAN, in_pk : BOOLEAN,
     fk : {"none", "parent", "excluded", "self"}, dist : BOOLEAN, enum : BOOLEAN,
     grouped : BOOLEAN]

StrategySchema(f) ==
    LET x == Column("x", "Integer", FALSE, f.auto)
    IN DatabaseSchema("PostgreSQL",
        <<Table("q", <<Column("id", "Serial", FALSE, TRUE)>>, <<"id">>, <<>>, <<>>),
          Table("t",
                <<Column("id", "Serial", FALSE, TRUE),
                  IF f.enum THEN [x EXCEPT !.enum_values = Some(<<"e1", "e2">>)] ELSE x,
                  Column("y", "Text", FALSE, FALSE)>>,
                IF f.in_pk THEN <<"id", "x">> ELSE <<"id">>,
                CASE f.fk = "none" -> <<>>
                  [] f.fk = "self" -> <<ForeignKey(<<"x">>, "t", <<"id">>, FALSE)>>
                  [] OTHER -> <<ForeignKey(<<"x">>, "q", <<"id">>, FALSE)>>,
                <<>>)>>)

NoRatio == [num |-> 0, den |-> 1]

StrategyArgs(f) ==
    [schema |-> StrategySchema(f),
     classifications |->
        (<<"t", "y">> :> "State") @@ (IF f.grouped THEN <<"t", "x">> :> "City" ELSE <<>>),
     insertion_order |-> IF f.fk = "excluded" THEN <<"t">> ELSE <<"q", "t">>,
     deferred_edges |->
        IF f.fk = "self"
        THEN <<[source_table |-> "t", source_columns |-> <<"x">>,
                target_table |-> "t", target_columns |-> <<"id">>]>>
        ELSE <<>>,
     default_row_count |-> 1,
     table_row_overrides |-> <<>>,
     column_overrides |->
        CASE f.override = "values" ->
                "t.x" :> [values |-> Some(<<"1", "2">>), weights |-> None, custom |-> None]
          [] f.override = "custom" ->
                "t.x" :> [values |-> None, weights |-> None, custom |-> Some("providers/x.js")]
          [] f.override = "weights" ->
                "t.x" :> [values |-> None, weights |-> Some(<<1, 3>>), custom |-> None]
          [] OTHER -> <<>>,
     profiles |->
        IF f.dist
        THEN <<[table_name |-> "t",
                column_distributions |->
                    <<[column |-> "x", kind |-> "Categorical", related_table |-> "",
                       ratio |-> NoRatio]>>]>>
        ELSE <<>>]

\* Arguments for the row counts of a(id), b(id, a_id -> a.id) and
\* c(id, b_id -> b.id): optional row-count overrides for a and b, optional
\* ratio profiles of b to a and of c to b (a ratio is num/den).
MaxDefaultRows == 2

Ratios == {[num |-> 2, den |-> 1], [num |-> 3, den |-> 2]}

RatioFeatures ==
    [default : 1..MaxDefaultRows, a_rows : {None, Some(3)}, b_rows : {None, Some(3)},
     b_ratio : {None} \cup {Some(r) : r \in Ratios},
     c_ratio : {None} \cup {Some(r) : r \in Ratios}]

RatioSchema ==
    DatabaseSchema("PostgreSQL",
        <<Table("a", <<Column("id", "Serial", FALSE, TRUE)>>, <<"id">>, <<>>, <<>>),
          Table("b", <<Column("id", "Serial", FALSE, TRUE),
                       Column("a_id", "Integer", FALSE, FALSE)>>,
                <<"id">>, <<ForeignKey(<<"a_id">>, "a", <<"id">>, FALSE)>>, <<>>),
          Table("c", <<Column("id", "Serial", FALSE, TRUE),
                       Column("b_id", "Integer", FALSE, FALSE)>>,
                <<"id">>, <<ForeignKey(<<"b_id">>, "b", <<"id">>, FALSE)>>, <<>>)>>)

RatioProfile(table_name, column_name, related_table, r) ==
    IF r = None THEN <<>>
    ELSE <<[table_name |-> table_name,
            column_distributions |->
                <<[column |-> column_name, kind |-> "Ratio", related_table |-> related_table,
                   ratio |-> r[1]]>>]>>

RatioArgs(f) ==
    [schema |-> RatioSchema,
     classifications |-> <<>>,
     insertion_order |-> <<"a", "b", "c">>,
     deferred_edges |-> <<>>,
     default_row_count |-> f.default,
     table_row_overrides |->
        (IF f.a_rows = None THEN <<>> ELSE "a" :> f.a_rows[1])
            @@ (IF f.b_rows = None THEN <<>> ELSE "b" :> f.b_rows[1]),
     column_overrides |-> <<>>,
     profiles |-> RatioProfile("b", "a_id", "a", f.b_ratio)
                    \o RatioProfile("c", "b_id", "b", f.c_ratio)]

PlanArgs ==
    {StrategyArgs(f) : f \in StrategyFeatures} \cup {RatioArgs(f) : f \in RatioFeatures}

InitPlan ==
    /\ plan_args \in PlanArgs
    /\ plan_built = <<>>
    /\ ppc = "build"
    /\ GraphIdle /\ BuildIdle /\ EngineIdle /\ InsertIdle /\ LockIdle /\ DriftIdle /\ ReplayIdle /\ ValueIdle /\ CmdIdle /\ SqlIdle

\* GenerationPlan::build
Build ==
    /\ ppc = "build"
    /\ \E iters \in BuildIterations(plan_args.schema, plan_args.classifications) :
        plan_built' = build(plan_args.schema, plan_args.classifications,
                            plan_args.insertion_order, plan_args.deferred_edges,
                            plan_args.default_row_count, plan_args.table_row_overrides,
                            plan_args.column_overrides, plan_args.profiles, iters)
    /\ ppc' = "done"
    /\ UNCHANGED plan_args
    /\ UNCHANGED <<graphVars, buildVars, engineVars, insertVars, lockVars, driftVars, replayVars,
                   valueVars, cmdVars, sqlVars>>

NextPlan == Build

SpecPlan == InitPlan /\ [][NextPlan]_vars

\* The column plan build made for a column, None when the table has no plan.
BuiltColumn(table_name, column_name) ==
    LET hits == {<<i, j>> \in (1..Len(plan_built)) \X (1..3) :
                    /\ plan_built[i].table_name = table_name
                    /\ j <= Len(plan_built[i].column_plans)
                    /\ plan_built[i].column_plans[j].column_name = column_name}
    IN IF hits = {} THEN None
       ELSE LET h == CHOOSE h \in hits : TRUE
            IN Some(plan_built[h[1]].column_plans[h[2]])

\* The strategy the priority list gives a column: the first rule that
\* matches, a foreign key whose parent is not in the order falling back to
\* SemanticProvider.
ListedStrategyKind(a, t, column) ==
    LET key == t.name \o "." \o column.name
        cfg == IF key \in DOMAIN a.column_overrides THEN Some(a.column_overrides[key]) ELSE None
        fk == SingleColumnFk(t, column.name)
    IN IF IsSome(cfg) /\ IsSome(cfg[1].values) THEN "ValueList"
       ELSE IF IsSome(cfg) /\ IsSome(cfg[1].custom) THEN "Custom"
       ELSE IF (column.is_auto_increment \/ is_serial(column.data_type))
               /\ Contains(t.primary_key, column.name) THEN "AutoIncrement"
       ELSE IF IsDeferredColumn(a.deferred_edges, t.name, column.name) THEN "Deferred"
       ELSE IF IsSome(fk)
         THEN IF Contains(a.insertion_order, fk[1].referenced_table)
              THEN "ForeignKeyReference" ELSE "SemanticProvider"
       ELSE IF IsSome(DistLookup(a.profiles, t.name, column.name)) THEN "Distribution"
       ELSE IF IsSome(column.enum_values) THEN "EnumValue"
       ELSE IF \E g \in CorrelationGroups :
                    /\ Classified(a.classifications, t.name, column.name)
                    /\ correlation_group(a.classifications[<<t.name, column.name>>]) = Some(g)
                    /\ Len(GroupColumns(t, a.classifications, g)) >= 2
         THEN "Correlated"
       ELSE "SemanticProvider"

\* C23: every column of a planned table gets the strategy of the first rule
\* that matches, in the order user override, auto-increment primary-key
\* column, source column of a deferred edge, single-column foreign key with
\* its parent in the plan, distribution profile, enum values, correlation
\* group, SemanticProvider; so a source column of a deferred edge without
\* override that is not an auto-increment primary key gets Deferred.
C23_StrategyPriority ==
    ppc = "done" =>
        \A i \in 1..Len(plan_built) :
            LET t == GetTable(plan_args.schema, plan_built[i].table_name)
            IN \A j \in 1..Len(t.columns) :
                plan_built[i].column_plans[j].strategy.kind
                    = ListedStrategyKind(plan_args, t, t.columns[j])

\* The row count of a table's plan, None when the table has none.
PlannedRows(table_name) ==
    LET hits == {i \in 1..Len(plan_built) : plan_built[i].table_name = table_name}
    IN IF hits = {} THEN None ELSE Some(plan_built[CHOOSE i \in hits : TRUE].row_count)

\* The ratio profiles that link a table to the parent of one of its foreign keys.
RatioLinks(a, t) ==
    {d \in UNION {SeqToSet(a.profiles[i].column_distributions) :
                    i \in {j \in 1..Len(a.profiles) : a.profiles[j].table_name = t.name}} :
        /\ d.kind = "Ratio"
        /\ \E k \in 1..Len(t.foreign_keys) : t.foreign_keys[k].referenced_table = d.related_table}

\* C24: the row count of each table plan is its explicit override if one
\* exists; otherwise, if a ratio profile links it to a parent table, the
\* parent's row count in the same plan times the ratio, rounded; otherwise
\* the default; also when the parent's own count was derived from a ratio.
C24_RowCountResolution ==
    ppc = "done" =>
        \A i \in 1..Len(plan_built) :
            LET a == plan_args
                t == GetTable(a.schema, plan_built[i].table_name)
                links == RatioLinks(a, t)
            IN IF t.name \in DOMAIN a.table_row_overrides
               THEN plan_built[i].row_count = a.table_row_overrides[t.name]
               ELSE IF links # {}
               THEN \E d \in links :
                        /\ IsSome(PlannedRows(d.related_table))
                        /\ plan_built[i].row_count =
                            (2 * PlannedRows(d.related_table)[1] * d.ratio.num + d.ratio.den)
                                \div (2 * d.ratio.den)
               ELSE plan_built[i].row_count = a.default_row_count

-----------------------------------------------------------------------------
(* filter_insertion_order (generate/plan.rs)                                 *)

\* The include list together with every table reachable from it over the
\* foreign keys of the schema.
IncludeClosure ==
    SeqToSet(include) \cup UNION {Reach(from_schema(schema), n) : n \in SeqToSet(include)}

\* C25: filter_insertion_order returns exactly the tables of the original
\* order that are in W minus the exclude list, W being all tables when the
\* include list is empty and otherwise the include list closed transitively
\* under "references by foreign key"; the result keeps the relative order of
\* the original list, and an excluded table is absent even when the closure
\* would add it.
C25_FilterInsertionOrder ==
    gpc \in {"build", "done"} =>
        LET W == IF include = <<>> THEN SeqToSet(insertion_order) ELSE IncludeClosure
        IN /\ SeqToSet(filtered_order) = (W \ SeqToSet(exclude)) \cap SeqToSet(insertion_order)
           /\ \A i, j \in 1..Len(filtered_order) :
                i < j => IndexOf(insertion_order, filtered_order[i])
                            < IndexOf(insertion_order, filtered_order[j])
           /\ \A n \in SeqToSet(exclude) : ~Contains(filtered_order, n)

\* Including b pulls in a, which b references, and through a the table c,
\* which the exclude list removes again.
C25_Witness ==
    /\ gpc = "build"
    /\ include = <<"b">> /\ exclude = <<"c">>
    /\ \E i \in 1..Len(from_schema(schema)) :
        from_schema(schema)[i].source = "a" /\ from_schema(schema)[i].target = "c"
    /\ \A i \in 1..Len(from_schema(schema)) :
        from_schema(schema)[i].source = "b" => from_schema(schema)[i].target = "a"
    /\ "c" \in IncludeClosure
    /\ SeqToSet(filtered_order) = {"a", "b"}

-----------------------------------------------------------------------------
(* Foreign keys to a table that is not in the plan                           *)

\* The single-column foreign keys of planned tables whose parent has no table
\* plan, as <<table plan index, column plan index>>.
OrphanFkColumns ==
    {tc \in (1..Len(plan.table_plans)) \X (1..2) :
        LET tp == plan.table_plans[tc[1]]
            fk == SingleColumnFk(GetTable(eng_schema, tp.table_name),
                                 tp.column_plans[tc[2]].column_name)
        IN /\ tc[2] <= Len(tp.column_plans)
           /\ IsSome(fk)
           /\ \A k \in 1..Len(plan.table_plans) :
                plan.table_plans[k].table_name # fk[1].referenced_table}

\* execute_plan is at a pick_reference call made for the column: the
\* ForeignKeyReference arm of the row pass or the deferred pass.
ConsultsPoolFor(tc) ==
    LET tp == plan.table_plans[tc[1]]
        cp == tp.column_plans[tc[2]]
    IN \/ epc = "value" /\ ti = tc[1] /\ ci = tc[2] /\ cp.strategy.kind = "ForeignKeyReference"
       \/ /\ epc = "deferred"
          /\ dpos.edge <= Len(plan.deferred_edges)
          /\ plan.deferred_edges[dpos.edge].source_table = tp.table_name
          /\ IsSome(GeneratedRows(generated, tp.table_name))
          /\ dpos.row_idx < Len(GeneratedRows(generated, tp.table_name)[1])
          /\ dpos.pair <= Len(plan.deferred_edges[dpos.edge].source_columns)
          /\ plan.deferred_edges[dpos.edge].source_columns[dpos.pair] = cp.column_name

\* The guard of rule 4 for one column: SemanticProvider, no pool lookup, no
\* ForeignKeyResolution.
OrphanGuard(tc) ==
    /\ plan.table_plans[tc[1]].column_plans[tc[2]].strategy.kind = "SemanticProvider"
    /\ ~ConsultsPoolFor(tc)
    /\ ~(epc = "error" /\ err = "ForeignKeyResolution" /\ ti = tc[1] /\ ci = tc[2])

-----------------------------------------------------------------------------
(* Composite unique retry: order_items(order_id, product_id)                 *)

\* orders(id), products(id, sku unique) and order_items(order_id -> orders.id,
\* product_id -> products.id, unique (order_id, product_id)); the row counts
\* of the three tables are the scenario.
CompositeScenarios ==
    [orders : 1..MaxRows, products : 1..MaxRows, rows : 1..(MaxRows * MaxRows + 1)]

CompositeSchema ==
    DatabaseSchema("PostgreSQL",
        <<Table("orders", <<Column("id", "Serial", FALSE, TRUE)>>, <<"id">>, <<>>, <<>>),
          Table("products",
                <<Column("id", "Serial", FALSE, TRUE), Column("sku", "Text", FALSE, FALSE)>>,
                <<"id">>, <<>>, <<(<<"sku">>)>>),
          Table("order_items",
                <<Column("order_id", "Integer", FALSE, FALSE),
                  Column("product_id", "Integer", FALSE, FALSE)>>,
                <<>>,
                <<ForeignKey(<<"order_id">>, "orders", <<"id">>, FALSE),
                  ForeignKey(<<"product_id">>, "products", <<"id">>, FALSE)>>,
                <<(<<"order_id", "product_id">>)>>)>>)

CompositePlan(sc) ==
    [table_plans |-> build(CompositeSchema, <<"products", "sku">> :> "Sku",
                           <<"orders", "products", "order_items">>,
                           <<>>, MaxRows,
                           ("orders" :> sc.orders) @@ ("products" :> sc.products)
                               @@ ("order_items" :> sc.rows),
                           <<>>, <<>>,
                           [n \in {"orders", "products", "order_items"} |-> <<>>]),
     deferred_edges |-> <<>>,
     seed |-> 1,
     sequence_offset |-> 0]

InitComposite ==
    /\ \E sc \in CompositeScenarios :
        /\ eng_schema = CompositeSchema
        /\ plan = CompositePlan(sc)
    /\ run = 1
    /\ epc = "start"
    /\ err = ""
    /\ rng_stream = <<>>
    /\ rng_pos = 0
    /\ unique_tracker = <<>>
    /\ fk_pool = <<>>
    /\ generated = <<>>
    /\ table_rows = <<>>
    /\ ti = 0 /\ row_idx = 0 /\ ci = 0
    /\ row = <<>>
    /\ attempts = 0 /\ col_attempts = 0
    /\ final_value = <<>>
    /\ dpos = <<>>
    /\ first_run = <<>>
    /\ GraphIdle
    /\ BuildIdle /\ InsertIdle /\ LockIdle /\ DriftIdle /\ ReplayIdle /\ PlanIdle /\ ValueIdle /\ CmdIdle /\ SqlIdle

SpecComposite == InitComposite /\ [][NextEngine]_vars

\* The number of (order_id, product_id) combinations of the parent pools.
Combinations == plan.table_plans[1].row_count * plan.table_plans[2].row_count

\* One row more is requested than there are combinations (10 rows over 3 x 3
\* in the code's scale).
OneRowTooMany == plan.table_plans[3].row_count = Combinations + 1

\* The accepted rows of order_items have pairwise distinct pairs.
DistinctPairs ==
    \A i, j \in 1..Len(table_rows) :
        (/\ RowGet(table_rows[i], "order_id") = RowGet(table_rows[j], "order_id")
         /\ RowGet(table_rows[i], "product_id") = RowGet(table_rows[j], "product_id"))
            => i = j

\* C27 as stated: with one row more requested than the parent pools have
\* combinations, every execution accepts one row per combination, pairwise
\* distinct, and then stops with CompositeUniqueExhausted at the row index
\* equal to the number of combinations; it never fails at a smaller row index
\* and never returns the requested rows.
C27_ExhaustionAsStated ==
    OneRowTooMany =>
        /\ epc \notin {"return", "done"}
        /\ epc = "error" =>
            /\ err = "CompositeUniqueExhausted"
            /\ ti = 3
            /\ row_idx = Combinations
            /\ Len(table_rows) = Combinations
            /\ DistinctPairs

\* C27: with one row more requested than the parent pools have combinations,
\* no execution returns a dataset; every execution stops with
\* CompositeUniqueExhausted for order_items after MAX_ROW_RETRIES colliding
\* candidates of one row, at a row index between 1 and the number of
\* combinations, and the rows accepted before are as many as the row index
\* and have pairwise distinct pairs; once every combination is accepted the
\* failure is at the row index equal to the number of combinations.
C27_Exhaustion ==
    OneRowTooMany =>
        /\ epc \notin {"return", "done"}
        /\ ti = 3 => DistinctPairs
        /\ epc = "error" =>
            /\ err = "CompositeUniqueExhausted"
            /\ ti = 3
            /\ attempts = MAX_ROW_RETRIES
            /\ row_idx >= 1 /\ row_idx <= Combinations
            /\ Len(table_rows) = row_idx
        /\ (ti = 3 /\ row_idx = Combinations /\ epc = "column"
                /\ ci > Len(TablePlan.column_plans)) =>
            CheckComposites(unique_tracker, "order_items",
                            composite_constraints(eng_schema, "order_items"), row).collision

\* Every combination was accepted and the run failed on the row after them.
C27_Witness ==
    /\ OneRowTooMany
    /\ Combinations = MaxRows * MaxRows
    /\ epc = "error"
    /\ err = "CompositeUniqueExhausted"
    /\ row_idx = Combinations
    /\ Len(table_rows) = Combinations

-----------------------------------------------------------------------------
(* A column with a custom provider                                           *)

\* items(id serial, sku unique, tax_code) with [columns."items.tax_code"]
\* custom = "./scripts/tax_gen.js"; tax_code nullable or not, 0..MaxRows + 1 rows.
CustomScenarios == [nullable : BOOLEAN, rows : 0..(MaxRows + 1)]

CustomSchema(sc) ==
    DatabaseSchema("PostgreSQL",
        <<Table("items",
                <<Column("id", "Serial", FALSE, TRUE),
                  Column("sku", "Text", FALSE, FALSE),
                  Column("tax_code", "Text", sc.nullable, FALSE)>>,
                <<"id">>, <<>>, <<(<<"sku">>)>>)>>)

CustomPlan(sc) ==
    [table_plans |-> build(CustomSchema(sc), <<"items", "sku">> :> "Sku", <<"items">>,
                           <<>>, MaxRows, "items" :> sc.rows,
                           "items.tax_code" :> [values |-> None, weights |-> None,
                                                custom |-> Some("./scripts/tax_gen.js")],
                           <<>>, [n \in {"items"} |-> <<>>]),
     deferred_edges |-> <<>>,
     seed |-> 42,
     sequence_offset |-> 0]

InitCustom ==
    /\ \E sc \in CustomScenarios :
        /\ eng_schema = CustomSchema(sc)
        /\ plan = CustomPlan(sc)
    /\ run = 1
    /\ epc = "start"
    /\ err = ""
    /\ rng_stream = <<>>
    /\ rng_pos = 0
    /\ unique_tracker = <<>>
    /\ fk_pool = <<>>
    /\ generated = <<>>
    /\ table_rows = <<>>
    /\ ti = 0 /\ row_idx = 0 /\ ci = 0
    /\ row = <<>>
    /\ attempts = 0 /\ col_attempts = 0
    /\ final_value = <<>>
    /\ dpos = <<>>
    /\ first_run = <<>>
    /\ GraphIdle
    /\ BuildIdle /\ InsertIdle /\ LockIdle /\ DriftIdle /\ ReplayIdle /\ PlanIdle /\ ValueIdle /\ CmdIdle /\ SqlIdle

SpecCustom == InitCustom /\ [][NextEngine]_vars

\* Some table of the plan has a Custom column and at least one row.
HasCustomColumn ==
    \E k \in 1..Len(plan.table_plans) :
        /\ plan.table_plans[k].row_count >= 1
        /\ \E c \in 1..Len(plan.table_plans[k].column_plans) :
            plan.table_plans[k].column_plans[c].strategy.kind = "Custom"

\* C28: executing a plan in which a column has the Custom strategy and its
\* table has at least one row never returns a dataset, and the error it
\* stops with is the configuration error of the Custom arm, also when the
\* column is nullable.
C28_CustomFails ==
    HasCustomColumn =>
        /\ epc \notin {"return", "done"}
        /\ epc = "error" => err = "Config"

-----------------------------------------------------------------------------
(* Numeric providers under check constraints (generate/providers.rs)         *)

\* Numbers are kept in thousandths: an f64 x is the integer 1000 * x, an i64
\* n is 1000 * n.
Thousandths(n) == n * 1000

\* The values v of the parsed checks col >= v, col > v, col <= v, col < v.
CheckValues == {0, 2500, 10004, 21000, 65000}

MaxChecks == 2

ParsedChecks ==
    [kind : {"GreaterThanOrEqual", "GreaterThan", "LessThanOrEqual", "LessThan"},
     value : CheckValues]

CheckLists == UNION {[1..n -> ParsedChecks] : n \in 0..MaxChecks}

Max(a, b) == IF a >= b THEN a ELSE b

Min(a, b) == IF a <= b THEN a ELSE b

\* `value as i64`: the cast truncates toward zero.
AsI64(v) == IF v >= 0 THEN v \div 1000 ELSE -((-v) \div 1000)

\* compute_numeric_bounds_i64, in whole numbers.
RECURSIVE FoldBoundsI64(_, _, _, _)
FoldBoundsI64(min, max, constraints, k) ==
    IF k > Len(constraints) THEN <<min, max>>
    ELSE LET c == constraints[k]
         IN CASE c.kind = "GreaterThanOrEqual" ->
                    FoldBoundsI64(Max(min, AsI64(c.value)), max, constraints, k + 1)
              [] c.kind = "GreaterThan" ->
                    FoldBoundsI64(Max(min, AsI64(c.value) + 1), max, constraints, k + 1)
              [] c.kind = "LessThanOrEqual" ->
                    FoldBoundsI64(min, Min(max, AsI64(c.value)), constraints, k + 1)
              [] c.kind = "LessThan" ->
                    FoldBoundsI64(min, Min(max, AsI64(c.value) - 1), constraints, k + 1)

compute_numeric_bounds_i64(default_min, default_max, constraints) ==
    LET b == FoldBoundsI64(default_min, default_max, constraints, 1)
    IN IF b[1] > b[2] THEN <<b[1], b[1] + 100>> ELSE b

\* compute_numeric_bounds_f64, in thousandths (0.01 is 10).
RECURSIVE FoldBoundsF64(_, _, _, _)
FoldBoundsF64(min, max, constraints, k) ==
    IF k > Len(constraints) THEN <<min, max>>
    ELSE LET c == constraints[k]
         IN CASE c.kind = "GreaterThanOrEqual" ->
                    FoldBoundsF64(Max(min, c.value), max, constraints, k + 1)
              [] c.kind = "GreaterThan" ->
                    FoldBoundsF64(Max(min, c.value + 10), max, constraints, k + 1)
              [] c.kind = "LessThanOrEqual" ->
                    FoldBoundsF64(min, Min(max, c.value), constraints, k + 1)
              [] c.kind = "LessThan" ->
                    FoldBoundsF64(min, Min(max, c.value - 10), constraints, k + 1)

compute_numeric_bounds_f64(default_min, default_max, constraints) ==
    LET b == FoldBoundsF64(default_min, default_max, constraints, 1)
    IN IF b[1] > b[2] THEN <<b[1], b[1] + Thousandths(100)>> ELSE b

\* (val * 100.0).round() / 100.0: to the nearest hundredth, halves away from
\* zero.
RoundHundredths(v) ==
    IF v >= 0 THEN ((v + 5) \div 10) * 10 ELSE -(((-v) + 5) \div 10) * 10

\* rng.random_range(min..=max) over f64 returns any value of the range; the
\* model draws the values within Spread thousandths of either end.
Spread == 12

FloatDraws(min, max) ==
    {v \in (min..(min + Spread)) \cup ((max - Spread)..max) : min <= v /\ v <= max}

\* The values generate_value can return for a numeric semantic type, in
\* thousandths.
NumericValues(semantic_type, check_constraints) ==
    CASE semantic_type \in {"Price", "Amount"} ->
            LET b == compute_numeric_bounds_f64(10, 999990, check_constraints)
            IN {RoundHundredths(v) : v \in FloatDraws(b[1], b[2])}
      [] semantic_type = "Quantity" ->
            LET b == compute_numeric_bounds_i64(1, 100, check_constraints)
            IN {Thousandths(n) : n \in b[1]..b[2]}
      [] semantic_type = "Age" -> {Thousandths(n) : n \in 18..89}

InitValue ==
    /\ value_type \in {"Price", "Amount", "Quantity", "Age"}
    /\ value_checks \in CheckLists
    /\ value_out = None
    /\ vpc = "call"
    /\ GraphIdle /\ EngineIdle
    /\ BuildIdle /\ InsertIdle /\ LockIdle /\ DriftIdle /\ ReplayIdle /\ PlanIdle /\ CmdIdle /\ SqlIdle

\* generate_value(semantic_type, rng, row_index, check_constraints, base_time)
\* for one of the four numeric types.
GenerateValue ==
    /\ vpc = "call"
    /\ \E v \in NumericValues(value_type, value_checks) : value_out' = Some(v)
    /\ vpc' = "returned"
    /\ UNCHANGED <<value_type, value_checks>>
    /\ UNCHANGED <<graphVars, buildVars, engineVars, insertVars, lockVars, driftVars, replayVars,
                   planVars, cmdVars, sqlVars>>

NextValue == GenerateValue

SpecValue == InitValue /\ [][NextValue]_vars

\* A value, in thousandths, satisfies a parsed check.
Satisfies(v, c) ==
    CASE c.kind = "GreaterThanOrEqual" -> v >= c.value
      [] c.kind = "GreaterThan" -> v > c.value
      [] c.kind = "LessThanOrEqual" -> v <= c.value
      [] c.kind = "LessThan" -> v < c.value

\* The checks leave a value of the column's kind: a whole number for Quantity
\* and Age, any number for Price and Amount.
Feasible(semantic_type, check_constraints) ==
    LET n == Len(check_constraints)
        fits(v) == \A k \in 1..n : Satisfies(v, check_constraints[k])
    IN IF semantic_type \in {"Quantity", "Age"}
       THEN \E x \in 0..100 : fits(Thousandths(x))
       ELSE \E k \in 1..n : \E e \in {-1, 0, 1} : fits(check_constraints[k].value + e)

\* C29: every value generated for a Price, Amount, Quantity or Age column
\* whose parsed checks col >= v, col > v, col <= v, col < v leave a non-empty
\* feasible range satisfies all of those checks, also after rounding and for
\* bound values that are not whole numbers on integer columns.
C29_CheckBounds ==
    (vpc = "returned" /\ value_checks # <<>> /\ Feasible(value_type, value_checks)) =>
        \A k \in 1..Len(value_checks) : Satisfies(value_out[1], value_checks[k])

-----------------------------------------------------------------------------
(* The generate command: phases 3 and 4 and the lock file                    *)

\* The writer makes at most MaxPieces writes for a dataset ("{\n" and "}\n"
\* at least); the serialized lock file is LockBytes long.
MaxPieces == 3

LockBytes == 2

\* A file: whose content it holds, how much of it, and how much there is.
FileOf(content, written, total) == [content |-> content, written |-> written, total |-> total]

Complete(file) == file[1].written = file[1].total

InitCommand ==
    /\ out_mode \in {"direct", "file", "stdout"}
    /\ data_pieces \in 2..MaxPieces
    /\ out_file \in {None, Some(FileOf("old", 2, 2))}
    /\ lock_disk \in {None, Some("old")}
    /\ lock_tmp = None
    /\ cpc = "generate"
    /\ cmd_result = ""
    /\ GraphIdle /\ EngineIdle
    /\ BuildIdle /\ InsertIdle /\ LockIdle /\ DriftIdle /\ ReplayIdle /\ PlanIdle /\ ValueIdle /\ SqlIdle

\* `?` on an Err: run returns it.
Fail ==
    /\ cpc' = "done"
    /\ cmd_result' = "Err"

\* Phase 3, generate.rs lines 249-255: engine::execute_plan(...)?
ExecutePlan ==
    /\ cpc = "generate"
    /\ \/ cpc' = "output" /\ UNCHANGED cmd_result
       \/ Fail
    /\ UNCHANGED <<out_mode, data_pieces, out_file, lock_disk, lock_tmp>>
    /\ UNCHANGED <<graphVars, buildVars, engineVars, insertVars, lockVars, driftVars, replayVars,
                   planVars, valueVars, sqlVars>>

\* Phase 4, lines 270-278: output::direct::insert_direct(...).await?
InsertDirect ==
    /\ cpc = "output"
    /\ out_mode = "direct"
    /\ \/ cpc' = "lock" /\ UNCHANGED cmd_result
       \/ Fail
    /\ UNCHANGED <<out_mode, data_pieces, out_file, lock_disk, lock_tmp>>
    /\ UNCHANGED <<graphVars, buildVars, engineVars, insertVars, lockVars, driftVars, replayVars,
                   planVars, valueVars, sqlVars>>

\* Phase 4, lines 301-323: File::create(path)?, a BufWriter over the file and
\* write_json / write_csv / write_sql(...)?. File::create truncates; a write
\* that fails returns the error with what was flushed before left in the
\* file; the BufWriter is dropped at the end of the arm and its last flush
\* ignores errors.
WriteToFile ==
    /\ cpc = "output"
    /\ out_mode = "file"
    /\ \/ Fail /\ UNCHANGED out_file
       \/ \E flushed \in 0..(data_pieces - 1) :
            /\ out_file' = Some(FileOf("new", flushed, data_pieces))
            /\ \/ Fail
               \/ cpc' = "lock" /\ UNCHANGED cmd_result
       \/ /\ out_file' = Some(FileOf("new", data_pieces, data_pieces))
          /\ cpc' = "lock"
          /\ UNCHANGED cmd_result
    /\ UNCHANGED <<out_mode, data_pieces, lock_disk, lock_tmp>>
    /\ UNCHANGED <<graphVars, buildVars, engineVars, insertVars, lockVars, driftVars, replayVars,
                   planVars, valueVars, sqlVars>>

\* Phase 4, lines 332-349: the same writers over stdout.
WriteToStdout ==
    /\ cpc = "output"
    /\ out_mode = "stdout"
    /\ \/ cpc' = "lock" /\ UNCHANGED cmd_result
       \/ Fail
    /\ UNCHANGED <<out_mode, data_pieces, out_file, lock_disk, lock_tmp>>
    /\ UNCHANGED <<graphVars, buildVars, engineVars, insertVars, lockVars, driftVars, replayVars,
                   planVars, valueVars, sqlVars>>

\* Lines 355-390 and lock::write_lock_file: create .seedkit.lock.tmp,
\* write_all, sync_all, rename over seedkit.lock; each step returns its error.
WriteLockFile ==
    /\ cpc = "lock"
    /\ \/ Fail /\ UNCHANGED <<lock_tmp, lock_disk>>
       \/ \E written \in 0..LockBytes :
            /\ lock_tmp' = Some(FileOf("new", written, LockBytes))
            /\ Fail
            /\ UNCHANGED lock_disk
       \/ /\ lock_tmp' = None
          /\ lock_disk' = Some("new")
          /\ cpc' = "done"
          /\ cmd_result' = "Ok"
    /\ UNCHANGED <<out_mode, data_pieces, out_file>>
    /\ UNCHANGED <<graphVars, buildVars, engineVars, insertVars, lockVars, driftVars, replayVars,
                   planVars, valueVars, sqlVars>>

NextCommand ==
    \/ ExecutePlan
    \/ InsertDirect
    \/ WriteToFile
    \/ WriteToStdout
    \/ WriteLockFile

SpecCommand == InitCommand /\ [][NextCommand]_vars

\* C30: after a generate run that fails, the output file is absent or
\* complete and seedkit.lock is what it was before the run.
C30_NoPartialFiles ==
    cmd_result = "Err" =>
        /\ out_file = None \/ Complete(out_file)
        /\ lock_disk \in {None, Some("old")}

-----------------------------------------------------------------------------
(* write_lock_file with a single writer that can be interrupted              *)

\* What an interrupted earlier run can have left under .seedkit.lock.tmp.
StaleTmp == {PayloadOf(2, n) : n \in 0..(MaxPayload + 1)}

\* Process 1 writes; process 2 never runs. The destination is absent or
\* holds the previous lock file; the temporary name is absent or stale.
InitSingleWriter ==
    /\ writer_kind = "lock"
    /\ \E n \in 1..(MaxPayload + 1) :
        payload = [p \in Procs |-> PayloadOf(p, IF p = 1 THEN n ELSE 1)]
    /\ \E old \in BOOLEAN, stale \in {None} \cup {Some(t) : t \in StaleTmp} :
        /\ inodes = (IF old THEN <<OldContent>> ELSE <<>>)
                        \o (IF stale = None THEN <<>> ELSE <<stale[1]>>)
        /\ dirents = [tmp |-> IF stale = None THEN 0 ELSE IF old THEN 2 ELSE 1,
                      dest |-> IF old THEN 1 ELSE 0]
    /\ wpc = [p \in Procs |-> IF p = 1 THEN "create" ELSE "done"]
    /\ wfd = [p \in Procs |-> 0]
    /\ woff = [p \in Procs |-> 0]
    /\ GraphIdle /\ BuildIdle /\ EngineIdle /\ InsertIdle /\ DriftIdle /\ ReplayIdle /\ PlanIdle /\ ValueIdle /\ CmdIdle /\ SqlIdle

\* A crash, Ctrl+C or an I/O error returned with `?` before or at the step
\* the writer is about to take: write_lock_file does nothing more.
Interrupt(p) ==
    /\ wpc[p] \in {"create", "write", "sync", "rename"}
    /\ wpc' = [wpc EXCEPT ![p] = "failed"]
    /\ UNCHANGED <<writer_kind, payload, inodes, dirents, wfd, woff>>
    /\ UNCHANGED <<graphVars, buildVars, engineVars, insertVars, driftVars, replayVars, planVars,
                   valueVars, cmdVars, sqlVars>>

NextSingleWriter ==
    \/ FileCreate(1)
    \/ WriteAll(1)
    \/ SyncAll(1)
    \/ Rename(1)
    \/ Interrupt(1)

SpecSingleWriter == InitSingleWriter /\ [][NextSingleWriter]_vars

\* What the lock file path holds.
DestContent == IF dirents.dest = 0 THEN None ELSE Some(inodes[dirents.dest])

\* C31: with a single writer that can be interrupted at any step, the lock
\* file path holds nothing, the complete previous lock file or the complete
\* new content, never anything else; what it holds changes only in the rename
\* step, to the complete new content, and it holds the new content once the
\* writer is done.
C31_AtomicReplace ==
    /\ [](DestContent \in {None, Some(OldContent), Some(payload[1])})
    /\ [](wpc[1] = "done" => DestContent = Some(payload[1]))
    /\ [][DestContent' # DestContent =>
            (wpc[1] = "rename" /\ wpc'[1] = "done" /\ DestContent' = Some(payload[1]))]_vars

\* The writer was interrupted in the middle of write_all: the temporary file
\* is half-written and the previous lock file is still in place.
C31_Witness ==
    /\ wpc[1] = "failed"
    /\ dirents.tmp # 0
    /\ Len(inodes[dirents.tmp]) >= 1
    /\ Len(inodes[dirents.tmp]) < Len(payload[1])
    /\ inodes[dirents.tmp] = SubSeq(payload[1], 1, Len(inodes[dirents.tmp]))
    /\ DestContent = Some(OldContent)

-----------------------------------------------------------------------------
(* Termination of execute_plan                                               *)

\* The scenarios in which both retry loops can run out: a full serial parent
\* and a child whose k is drawn from the few Status words, with every
\* combination of nullable p_id, unique (p_id), unique (k), unique (p_id, k).
RetryScenarios ==
    {sc \in EngineScenarios : sc.parent.kind = "serial" /\ sc.parent.rows = MaxRows
                                  /\ sc.kcol = "Status"}

InitRetry ==
    /\ InitEngine
    /\ \E sc \in RetryScenarios : eng_schema = EngineSchema(sc) /\ plan = EnginePlan(sc)

\* execute_plan is straight-line code without suspension points: a call that
\* can take a step takes it.
SpecEngineFair == InitRetry /\ [][NextEngine]_vars /\ WF_vars(NextEngine)

\* C32: execute_plan always terminates. The whole-row candidates of a row
\* never exceed MAX_ROW_RETRIES and the regenerations of a unique column never
\* exceed max_retries; when a bound is reached the run has returned
\* CompositeUniqueExhausted or UniqueExhausted; and every run of the caller's
\* two calls ends, with a dataset or with an error.
C32_Terminates ==
    /\ [](epc # "idle" =>
            /\ attempts <= MAX_ROW_RETRIES
            /\ col_attempts <= max_retries
            /\ attempts = MAX_ROW_RETRIES =>
                    (epc = "error" /\ err = "CompositeUniqueExhausted")
            /\ col_attempts = max_retries => (epc = "error" /\ err = "UniqueExhausted"))
    /\ <>(epc \in {"done", "error"})

\* A column used up max_retries and the run returned UniqueExhausted.
C32_Witness ==
    /\ epc = "error"
    /\ err = "UniqueExhausted"
    /\ col_attempts = max_retries

-----------------------------------------------------------------------------
(* truncate_sql (output/direct.rs)                                           *)

\* The call sites pass max_len = 200; the model runs the same function with
\* a shorter preview over statements of up to MaxSqlChars characters.
SqlPreviewLen == 3

MaxSqlChars == 6

\* A character is "a" (one byte in UTF-8) or "e'" (two bytes: a lead byte and
\* a continuation byte).
SqlChars == {"a", "e'"}

SqlStatements == UNION {[1..n -> SqlChars] : n \in 0..MaxSqlChars}

\* str::as_bytes
RECURSIVE Utf8(_)
Utf8(chars) ==
    IF chars = <<>> THEN <<>>
    ELSE (IF chars[1] = "a" THEN <<"a">> ELSE <<"lead", "cont">>) \o Utf8(Tail(chars))

\* str::is_char_boundary(index), index counted from 0.
is_char_boundary(bytes, index) ==
    \/ index = 0
    \/ index = Len(bytes)
    \/ index < Len(bytes) /\ bytes[index + 1] # "cont"

\* truncate_sql(sql, max_len): sql.len() is the length in bytes, and the
\* slice &sql[..max_len] panics when max_len is not a character boundary.
truncate_sql_without_dots(sql, max_len) ==
    LET bytes == Utf8(sql)
    IN IF Len(bytes) <= max_len THEN [kind |-> "ok", bytes |-> bytes]
       ELSE IF ~is_char_boundary(bytes, max_len) THEN [kind |-> "panic", bytes |-> <<>>]
       ELSE [kind |-> "ok", bytes |-> SubSeq(bytes, 1, max_len)]

truncate_sql(sql, max_len) ==
    LET bytes == Utf8(sql)
    IN IF Len(bytes) <= max_len THEN [kind |-> "ok", bytes |-> bytes]
       ELSE IF ~is_char_boundary(bytes, max_len) THEN [kind |-> "panic", bytes |-> <<>>]
       ELSE [kind |-> "ok", bytes |-> SubSeq(bytes, 1, max_len) \o <<".", ".", ".">>]

InitSql ==
    /\ sql_statement \in SqlStatements
    /\ sql_preview = None
    /\ spc = "call"
    /\ GraphIdle /\ BuildIdle
    /\ EngineIdle /\ InsertIdle /\ LockIdle /\ DriftIdle /\ ReplayIdle /\ PlanIdle /\ ValueIdle /\ CmdIdle

\* sql_preview: truncate_sql(&sql, 200) while the InsertFailed error is built.
TruncateSql ==
    /\ spc = "call"
    /\ LET r == truncate_sql(sql_statement, SqlPreviewLen)
       IN IF r.kind = "panic"
          THEN spc' = "panicked" /\ UNCHANGED sql_preview
          ELSE spc' = "returned" /\ sql_preview' = Some(r.bytes)
    /\ UNCHANGED sql_statement
    /\ UNCHANGED <<graphVars, buildVars, engineVars, insertVars, lockVars, driftVars, replayVars,
                   planVars, valueVars, cmdVars>>

NextSql == TruncateSql

SpecSql == InitSql /\ [][NextSql]_vars

\* The number of characters of a byte string.
NumChars(bytes) == Cardinality({i \in 1..Len(bytes) : bytes[i] # "cont"})

IsPrefix(a, b) == Len(a) <= Len(b) /\ a = SubSeq(b, 1, Len(a))

-----------------------------------------------------------------------------
(* A table with a multi-column primary key                                   *)

\* posts(id), tags(id, name unique) and post_tags(post_id -> posts.id,
\* tag_id -> tags.id, PRIMARY KEY (post_id, tag_id)); the row counts of the
\* three tables are the scenario.
CompositePkScenarios == [posts : 1..MaxRows, tags : 1..MaxRows, rows : 1..(MaxRows + 1)]

CompositePkSchema ==
    DatabaseSchema("PostgreSQL",
        <<Table("posts", <<Column("id", "Serial", FALSE, TRUE)>>, <<"id">>, <<>>, <<>>),
          Table("tags",
                <<Column("id", "Serial", FALSE, TRUE), Column("name", "Text", FALSE, FALSE)>>,
                <<"id">>, <<>>, <<(<<"name">>)>>),
          Table("post_tags",
                <<Column("post_id", "Integer", FALSE, FALSE),
                  Column("tag_id", "Integer", FALSE, FALSE)>>,
                <<"post_id", "tag_id">>,
                <<ForeignKey(<<"post_id">>, "posts", <<"id">>, FALSE),
                  ForeignKey(<<"tag_id">>, "tags", <<"id">>, FALSE)>>,
                <<>>)>>)

CompositePkPlan(sc) ==
    [table_plans |-> build(CompositePkSchema, <<"tags", "name">> :> "Sku",
                           <<"posts", "tags", "post_tags">>,
                           <<>>, MaxRows,
                           ("posts" :> sc.posts) @@ ("tags" :> sc.tags)
                               @@ ("post_tags" :> sc.rows),
                           <<>>, <<>>,
                           [n \in {"posts", "tags", "post_tags"} |-> <<>>]),
     deferred_edges |-> <<>>,
     seed |-> 42,
     sequence_offset |-> 0]

InitCompositePk ==
    /\ \E sc \in CompositePkScenarios :
        /\ eng_schema = CompositePkSchema
        /\ plan = CompositePkPlan(sc)
    /\ run = 1
    /\ epc = "start"
    /\ err = ""
    /\ rng_stream = <<>>
    /\ rng_pos = 0
    /\ unique_tracker = <<>>
    /\ fk_pool = <<>>
    /\ generated = <<>>
    /\ table_rows = <<>>
    /\ ti = 0 /\ row_idx = 0 /\ ci = 0
    /\ row = <<>>
    /\ attempts = 0 /\ col_attempts = 0
    /\ final_value = <<>>
    /\ dpos = <<>>
    /\ first_run = <<>>
    /\ GraphIdle
    /\ BuildIdle /\ InsertIdle /\ LockIdle /\ DriftIdle /\ ReplayIdle /\ PlanIdle /\ ValueIdle /\ CmdIdle /\ SqlIdle

SpecCompositePk == InitCompositePk /\ [][NextEngine]_vars

\* The values of the columns cols in a row: <<>> when one is missing.
KeyTuple(r, cols) ==
    IF \A k \in 1..Len(cols) : IsSome(RowGet(r, cols[k]))
    THEN <<[k \in 1..Len(cols) |-> RowGet(r, cols[k])[1]]>>
    ELSE <<>>

\* C34: in every dataset execute_plan returns, no two rows of a table with
\* a multi-column primary key, all of whose columns are present in the rows,
\* carry the same primary-key tuple.
C34_CompositePrimaryKey ==
    epc = "return" =>
        \A k \in 1..Len(generated.tables) :
            LET name == generated.tables[k].name
                rows == generated.tables[k].rows
                pk == IF HasTable(eng_schema, name)
                      THEN GetTable(eng_schema, name).primary_key ELSE <<>>
            IN (Len(pk) > 1 /\ \A i \in 1..Len(rows) : KeyTuple(rows[i], pk) # <<>>) =>
                \A i, j \in 1..Len(rows) :
                    KeyTuple(rows[i], pk) = KeyTuple(rows[j], pk) => i = j

-----------------------------------------------------------------------------
(* A multi-column foreign key                                                *)

\* regions(country, code, PRIMARY KEY (country, code)) and cities(id, zip
\* unique, country, code, FOREIGN KEY (country, code) REFERENCES regions);
\* the scenario is the two row counts and whether the FK columns are nullable.
RegionScenarios == [regions : 1..MaxRows, cities : 1..MaxRows, fk_nullable : BOOLEAN]

RegionSchema(sc) ==
    DatabaseSchema("PostgreSQL",
        <<Table("regions",
                <<Column("country", "Text", FALSE, FALSE), Column("code", "Text", FALSE, FALSE)>>,
                <<"country", "code">>, <<>>, <<>>),
          Table("cities",
                <<Column("id", "Serial", FALSE, TRUE),
                  Column("zip", "Text", FALSE, FALSE),
                  Column("country", "Text", sc.fk_nullable, FALSE),
                  Column("code", "Text", sc.fk_nullable, FALSE)>>,
                <<"id">>,
                <<ForeignKey(<<"country", "code">>, "regions", <<"country", "code">>, FALSE)>>,
                <<(<<"zip">>)>>)>>)

\* The rule-based classifier goes by column name: the same names get the same
\* semantic type in both tables.
RegionClassifications ==
    (<<"regions", "country">> :> "Status") @@ (<<"regions", "code">> :> "Sku")
        @@ (<<"cities", "country">> :> "Status") @@ (<<"cities", "code">> :> "Sku")
        @@ (<<"cities", "zip">> :> "Sku")

RegionPlan(sc) ==
    [table_plans |-> build(RegionSchema(sc), RegionClassifications, <<"regions", "cities">>,
                           <<>>, MaxRows,
                           ("regions" :> sc.regions) @@ ("cities" :> sc.cities),
                           <<>>, <<>>, [n \in {"regions", "cities"} |-> <<>>]),
     deferred_edges |-> <<>>,
     seed |-> 42,
     sequence_offset |-> 0]

InitRegion ==
    /\ \E sc \in RegionScenarios :
        /\ eng_schema = RegionSchema(sc)
        /\ plan = RegionPlan(sc)
    /\ run = 1
    /\ epc = "start"
    /\ err = ""
    /\ rng_stream = <<>>
    /\ rng_pos = 0
    /\ unique_tracker = <<>>
    /\ fk_pool = <<>>
    /\ generated = <<>>
    /\ table_rows = <<>>
    /\ ti = 0 /\ row_idx = 0 /\ ci = 0
    /\ row = <<>>
    /\ attempts = 0 /\ col_attempts = 0
    /\ final_value = <<>>
    /\ dpos = <<>>
    /\ first_run = <<>>
    /\ GraphIdle
    /\ BuildIdle /\ InsertIdle /\ LockIdle /\ DriftIdle /\ ReplayIdle /\ PlanIdle /\ ValueIdle /\ CmdIdle /\ SqlIdle

SpecRegion == InitRegion /\ [][NextEngine]_vars

\* The value of a column in row i of a generated table once the deferred
\* updates are applied (the last update of the row and column wins).
FinalValue(table_name, i, column_name) ==
    LET ups == UpdatesFor(table_name, i - 1, column_name)
    IN IF ups # {}
       THEN Some(generated.deferred_updates[CHOOSE u \in ups : \A v \in ups : v <= u].value)
       ELSE RowGet(GeneratedRows(generated, table_name)[1][i], column_name)

\* The value the database holds in a column of parent row j: the generated
\* one, or the key the sequence assigns to a skipped auto-increment column.
StoredValue(table_name, j, column_name) ==
    LET v == FinalValue(table_name, j, column_name)
    IN IF IsSome(v) THEN v ELSE Some(ValueInt(plan.sequence_offset + j))

\* C35: when execute_plan returns, for every foreign key of the schema whose
\* child and parent tables are both generated, and every child row, the tuple
\* of FK column values after the deferred updates contains a Null or equals
\* the referenced-column tuple of one generated parent row.
C35_ReferentialConsistency ==
    epc = "return" =>
        \A t \in 1..Len(eng_schema.tables) :
            LET child == eng_schema.tables[t]
            IN \A f \in 1..Len(child.foreign_keys) :
                LET fk == child.foreign_keys[f]
                    rows == GeneratedRows(generated, child.name)
                    parents == GeneratedRows(generated, fk.referenced_table)
                    cols == 1..Len(fk.source_columns)
                IN (rows # None /\ parents # None) =>
                    \A i \in 1..Len(rows[1]) :
                        \/ \E k \in cols :
                            LET v == FinalValue(child.name, i, fk.source_columns[k])
                            IN IsSome(v) /\ is_null(v[1])
                        \/ \E j \in 1..Len(parents[1]) :
                            \A k \in cols :
                                FinalValue(child.name, i, fk.source_columns[k])
                                    = StoredValue(fk.referenced_table, j, fk.referenced_columns[k])

-----------------------------------------------------------------------------
(* NOT NULL columns                                                          *)

\* A cycle of two NOT NULL foreign keys, p(id, c_id -> c.id) and
\* c(id, p_id -> p.id, sku unique, state enum): break_cycles defers p.c_id
\* as a deferrable edge (priority 3) or as a last resort (priority 4).  The
\* enum type of c.state has labels or none.
NotNullScenarios ==
    [p_rows : 1..MaxRows, c_rows : 1..MaxRows, deferrable : BOOLEAN, labels : {<<>>, <<"e1", "e2">>}]

NotNullSchema(sc) ==
    DatabaseSchema("PostgreSQL",
        <<Table("p", <<Column("id", "Serial", FALSE, TRUE),
                       Column("c_id", "Integer", FALSE, FALSE)>>,
                <<"id">>, <<ForeignKey(<<"c_id">>, "c", <<"id">>, sc.deferrable)>>, <<>>),
          Table("c", <<Column("id", "Serial", FALSE, TRUE),
                       Column("p_id", "Integer", FALSE, FALSE),
                       Column("sku", "Text", FALSE, FALSE),
                       [Column("state", "Text", FALSE, FALSE) EXCEPT !.enum_values = Some(sc.labels)]>>,
                <<"id">>, <<ForeignKey(<<"p_id">>, "p", <<"id">>, FALSE)>>,
                <<(<<"sku">>)>>)>>)

NotNullPlan(sc) ==
    [table_plans |->
        build(NotNullSchema(sc), <<"c", "sku">> :> "Sku", <<"p", "c">>,
              CycleDeferredEdges, MaxRows, ("p" :> sc.p_rows) @@ ("c" :> sc.c_rows),
              <<>>, <<>>, [n \in {"p", "c"} |-> <<>>]),
     deferred_edges |-> CycleDeferredEdges,
     seed |-> 42,
     sequence_offset |-> 0]

InitNotNull ==
    /\ \E sc \in NotNullScenarios :
        /\ eng_schema = NotNullSchema(sc)
        /\ plan = NotNullPlan(sc)
    /\ run = 1
    /\ epc = "start"
    /\ err = ""
    /\ rng_stream = <<>>
    /\ rng_pos = 0
    /\ unique_tracker = <<>>
    /\ fk_pool = <<>>
    /\ generated = <<>>
    /\ table_rows = <<>>
    /\ ti = 0 /\ row_idx = 0 /\ ci = 0
    /\ row = <<>>
    /\ attempts = 0 /\ col_attempts = 0
    /\ final_value = <<>>
    /\ dpos = <<>>
    /\ first_run = <<>>
    /\ GraphIdle
    /\ BuildIdle /\ InsertIdle /\ LockIdle /\ DriftIdle /\ ReplayIdle /\ PlanIdle /\ ValueIdle /\ CmdIdle /\ SqlIdle

SpecNotNull == InitNotNull /\ [][NextEngine]_vars

\* C36: when execute_plan returns, no row of the generated data holds Null in
\* a column the schema declares NOT NULL.
C36_NoNullInNotNull ==
    epc = "return" =>
        \A t \in 1..Len(generated.tables) :
            LET table == GetTable(eng_schema, generated.tables[t].name)
            IN \A r \in 1..Len(generated.tables[t].rows), c \in 1..Len(table.columns) :
                ~table.columns[c].nullable =>
                    RowGet(generated.tables[t].rows[r], table.columns[c].name) # Some(ValueNull)

-----------------------------------------------------------------------------
(* The seen-sets of the uniqueness tracker                                   *)

\* slots(id serial, code unique, day, hour, unique (day, hour)): a candidate
\* row inserts its code before the pair (day, hour) is checked.
SlotScenarios == [rows : 1..(MaxRows + 1), code : {"Sku", "Uuid"}, nullable : BOOLEAN]

SlotSchema(sc) ==
    DatabaseSchema("PostgreSQL",
        <<Table("slots",
                <<Column("id", "Serial", FALSE, TRUE),
                  Column("code", "Text", FALSE, FALSE),
                  Column("day", "Text", sc.nullable, FALSE),
                  Column("hour", "Text", FALSE, FALSE)>>,
                <<"id">>, <<>>, <<(<<"code">>), <<"day", "hour">>>>)>>)

SlotPlan(sc) ==
    [table_plans |->
        build(SlotSchema(sc),
              (<<"slots", "code">> :> sc.code) @@ (<<"slots", "day">> :> "Status")
                  @@ (<<"slots", "hour">> :> "Status"),
              <<"slots">>, <<>>, MaxRows, "slots" :> sc.rows,
              <<>>, <<>>, [n \in {"slots"} |-> <<>>]),
     deferred_edges |-> <<>>,
     seed |-> 42,
     sequence_offset |-> 0]

InitSlot ==
    /\ \E sc \in SlotScenarios :
        /\ eng_schema = SlotSchema(sc)
        /\ plan = SlotPlan(sc)
    /\ run = 1
    /\ epc = "start"
    /\ err = ""
    /\ rng_stream = <<>>
    /\ rng_pos = 0
    /\ unique_tracker = <<>>
    /\ fk_pool = <<>>
    /\ generated = <<>>
    /\ table_rows = <<>>
    /\ ti = 0 /\ row_idx = 0 /\ ci = 0
    /\ row = <<>>
    /\ attempts = 0 /\ col_attempts = 0
    /\ final_value = <<>>
    /\ dpos = <<>>
    /\ first_run = <<>>
    /\ GraphIdle
    /\ BuildIdle /\ InsertIdle /\ LockIdle /\ DriftIdle /\ ReplayIdle /\ PlanIdle /\ ValueIdle /\ CmdIdle /\ SqlIdle

SpecSlot == InitSlot /\ [][NextEngine]_vars

\* The rows committed so far for a table: those of the table being generated,
\* or those of a finished table.
CommittedRows(table_name) ==
    IF ti <= Len(plan.table_plans) /\ TablePlan.table_name = table_name THEN table_rows
    ELSE IF IsSome(GeneratedRows(generated, table_name))
         THEN GeneratedRows(generated, table_name)[1]
         ELSE <<>>

\* The keys the committed rows of a table have under a constraint: a
\* single-column constraint tracks the non-Null values, a composite one the
\* tuples of the rows that carry all its columns.
CommittedKeys(table_name, columns) ==
    LET rows == CommittedRows(table_name)
        keyed == {i \in 1..Len(rows) :
                    /\ Materialized(rows[i], columns)
                    /\ Len(columns) = 1 => ~is_null(RowGet(rows[i], columns[1])[1])}
    IN {Join([k \in 1..Len(columns) |-> to_unique_key(RowGet(rows[i], columns[k])[1])], "|") :
            i \in keyed}

\* C37: between rows, the seen-set of every registered constraint of every
\* table holds exactly the keys of the rows committed so far for that table.
C37_SeenSetsExact ==
    epc = "rows" =>
        \A t \in 1..Len(eng_schema.tables) :
            LET table == eng_schema.tables[t]
                constraints == table.unique_constraints
                                   \o (IF table.primary_key # <<>> THEN <<table.primary_key>> ELSE <<>>)
            IN \A u \in 1..Len(constraints) :
                constraint_key(table.name, constraints[u]) \in DOMAIN unique_tracker =>
                    unique_tracker[constraint_key(table.name, constraints[u])]
                        = CommittedKeys(table.name, constraints[u])

-----------------------------------------------------------------------------
(* Deferred updates of a direct-insert run                                   *)

\* The UPDATE statements the run has sent.
UpdatesSent == Cardinality({k \in 1..Len(session.log) : session.log[k] = "update"})

\* C38: when insert_direct has returned Ok, one UPDATE statement was executed
\* per DeferredUpdate of the generated data, and the statement of each
\* update matches, among the rows the run stored in the update's table, the
\* row it was generated for and no other.
C38_EveryUpdateApplied ==
    result = "Ok" =>
        /\ UpdatesSent = Len(data.deferred_updates)
        /\ \A u \in 1..Len(data.deferred_updates) :
            LET update == data.deferred_updates[u]
                sql == build_deferred_update(update, data, ins_schema)
                stored == database.rows[update.table_name]
            IN /\ sql # None
               /\ \A i \in 1..Len(stored) :
                    WhereMatches(stored[i], sql[1]) <=> i = update.row_index + 1

-----------------------------------------------------------------------------
(* The lock file a --from-lock run writes (commands/generate.rs)             *)

\* C39: after generate --from-lock, the rewritten lock has the seed,
\* base_time, row count, include and exclude lists, ai flag, AI
\* classifications and column overrides of the lock the run restored, and a
\* second --from-lock run builds the plan the first one built.
C39_ReplayIdempotent ==
    rpc = "done" =>
        LET old == replay_run.restored_lock
            new == lock_file[1]
            second == GenerateRun([ai |-> FALSE, from_lock |-> TRUE, seed |-> 42, rows |-> 2,
                                   include |-> <<>>, exclude |-> <<>>],
                                  seedkit_toml, lock_file, wall_clock, llm_cache, <<>>)
        IN /\ new.seed = old.seed
           /\ new.base_time = old.base_time
           /\ new.config.default_row_count = old.config.default_row_count
           /\ new.config.include_tables = old.config.include_tables
           /\ new.config.exclude_tables = old.config.exclude_tables
           /\ new.config.ai_enabled = old.config.ai_enabled
           /\ new.config.ai_classifications = old.config.ai_classifications
           /\ new.config.column_overrides = old.config.column_overrides
           /\ second.plan = replay_run.plan

-----------------------------------------------------------------------------
(* A foreign key to a unique column that is not the primary key              *)

\* accounts(id serial, email unique) and logins(id serial, account ->
\* accounts.id or accounts.email), the FK column nullable or not.
AccountScenarios ==
    [accounts : 1..MaxRows, logins : 1..MaxRows, target : {"id", "email"}, fk_nullable : BOOLEAN]

AccountSchema(sc) ==
    DatabaseSchema("PostgreSQL",
        <<Table("accounts",
                <<Column("id", "Serial", FALSE, TRUE), Column("email", "Text", FALSE, FALSE)>>,
                <<"id">>, <<>>, <<(<<"email">>)>>),
          Table("logins",
                <<Column("id", "Serial", FALSE, TRUE),
                  Column("account", IF sc.target = "id" THEN "Integer" ELSE "Text",
                         sc.fk_nullable, FALSE)>>,
                <<"id">>,
                <<ForeignKey(<<"account">>, "accounts", <<sc.target>>, FALSE)>>,
                <<>>)>>)

AccountPlan(sc) ==
    [table_plans |->
        build(AccountSchema(sc), <<"accounts", "email">> :> "Sku", <<"accounts", "logins">>,
              <<>>, MaxRows, ("accounts" :> sc.accounts) @@ ("logins" :> sc.logins),
              <<>>, <<>>, [n \in {"accounts", "logins"} |-> <<>>]),
     deferred_edges |-> <<>>,
     seed |-> 42,
     sequence_offset |-> 0]

InitAccount ==
    /\ \E sc \in AccountScenarios :
        /\ eng_schema = AccountSchema(sc)
        /\ plan = AccountPlan(sc)
    /\ run = 1
    /\ epc = "start"
    /\ err = ""
    /\ rng_stream = <<>>
    /\ rng_pos = 0
    /\ unique_tracker = <<>>
    /\ fk_pool = <<>>
    /\ generated = <<>>
    /\ table_rows = <<>>
    /\ ti = 0 /\ row_idx = 0 /\ ci = 0
    /\ row = <<>>
    /\ attempts = 0 /\ col_attempts = 0
    /\ final_value = <<>>
    /\ dpos = <<>>
    /\ first_run = <<>>
    /\ GraphIdle
    /\ BuildIdle /\ InsertIdle /\ LockIdle /\ DriftIdle /\ ReplayIdle /\ PlanIdle /\ ValueIdle /\ CmdIdle /\ SqlIdle

SpecAccount == InitAccount /\ [][NextEngine]_vars

\* C40: under a plan whose tables all have a row count of at least 1,
\* execute_plan does not fail with ForeignKeyResolution, and whenever the
\* value of a ForeignKeyReference column is about to be generated the pool
\* of its referenced table and column is not empty.
C40_PoolNeverEmpty ==
    (plan # <<>> /\ \A k \in 1..Len(plan.table_plans) : plan.table_plans[k].row_count >= 1) =>
        /\ ~(epc = "error" /\ err = "ForeignKeyResolution")
        /\ (epc = "value" /\ ColPlan.strategy.kind = "ForeignKeyReference") =>
                PoolOf(fk_pool, ColPlan.strategy.referenced_table,
                       ColPlan.strategy.referenced_column) # <<>>

=============================================================================
